---- MODULE Spec2Model ----
(***************************************************************************)
(* Model of the reconciliation core of coinledger-parser:                  *)
(*   src/src/reconciliation/engine.py            ReconciliationEngine      *)
(*   src/src/reconciliation/ordinals_detector.py detect_patterns and rules *)
(*   src/src/reconciliation/anomaly.py           AnomalyDetector           *)
(*                                                                         *)
(* Amounts are integers in satoshi (1e-8 BTC), so 0.00001 BTC = 1000 and   *)
(* 0.0001 BTC = 10000.  Timestamps are integers in seconds.  A confidence  *)
(* is an exact fraction <<num, den>> with den > 0; the float rounding of   *)
(* the Python arithmetic is not modelled.                                  *)
(***************************************************************************)
EXTENDS Integers, Sequences, FiniteSets, TLC

VARIABLES pc, source_a, source_b, matched, conflicts, missing_in_a,
          tx_group, my_wallets, pattern,
          arg_amount, dust, arg_tx_id, ordiscan_link,
          all_groups, correction_suggestions, summary,
          transactions, anomalies,
          second_result, other_group, other_wallets, other_pattern

\* The variables of each modelled operation: its arguments and its results.
dust_vars == <<arg_amount, dust>>
link_vars == <<arg_tx_id, ordiscan_link>>
corrections_vars == <<all_groups, correction_suggestions, summary>>
anomaly_vars == <<transactions, anomalies>>
\* A second call of an operation, made to compare its result with the first.
rerun_vars == <<second_result, other_group, other_wallets, other_pattern>>

vars == <<pc, source_a, source_b, matched, conflicts, missing_in_a,
          tx_group, my_wallets, pattern,
          dust_vars, link_vars, corrections_vars, anomaly_vars, rerun_vars>>

(***************************************************************************)
(* Bounds of the model.                                                    *)
(***************************************************************************)
MaxA == 2
MaxB == 2
MaxGroup == 4
MaxDustAmount == 1010
MaxIdLen == 65
MaxTx == 4
MaxSaleGroup == 2

(***************************************************************************)
(* Helpers.                                                                *)
(***************************************************************************)
Abs(x) == IF x < 0 THEN -x ELSE x

SeqsUpTo(S, n) == UNION {[1..k -> S] : k \in 0..n}

\* The positions in S, a set of positions of a list, in list order (the
\* order in which a Python comprehension or a boolean mask keeps them).
RECURSIVE InOrder(_)
InOrder(S) ==
    IF S = {} THEN <<>>
    ELSE LET m == CHOOSE x \in S : \A y \in S : x <= y
         IN  <<m>> \o InOrder(S \ {m})

\* Fractions <<num, den>>, den > 0.
FracGT(x, y) == x[1] * y[2] > y[1] * x[2]
FracGE(x, y) == x[1] * y[2] >= y[1] * x[2]
FracEQ(x, y) == x[1] * y[2] = y[1] * x[2]

(***************************************************************************)
(* models.py: UnifiedTransaction.  asset and price_krw play no part in the *)
(* modelled operations and are left out.                                   *)
(***************************************************************************)
UnifiedTransaction(timestamp, amount, fee, tx_id, tx_type, source, metadata) ==
    [timestamp |-> timestamp, amount |-> amount, fee |-> fee, tx_id |-> tx_id,
     tx_type |-> tx_type, source |-> source, metadata |-> metadata]

\* metadata is a dict: a function from the keys it holds to their values.
\* NoMetadata is the empty dict of default_factory=dict, MetadataNone stands
\* for a metadata of None.  An inscription id is a sequence of characters.
NoMetadata == <<>>
MetadataNone == [none |-> TRUE]

\* "if deposit_tx.metadata": None and the empty dict are falsy.
metadata_truthy(metadata) ==
    "none" \notin DOMAIN metadata /\ DOMAIN metadata # {}

\* metadata.get(key), with missing standing for the None of an absent key.
metadata_get(metadata, key, missing) ==
    IF key \in DOMAIN metadata THEN metadata[key] ELSE missing

\* Python's None as the result of a detector.
None == [pattern |-> "None"]

\* The values of an operation's variables in a run of another operation.
DustIdle == arg_amount = 0 /\ dust = FALSE
LinkIdle == arg_tx_id = <<>> /\ ordiscan_link = <<>>
CorrectionsIdle ==
    all_groups = <<>> /\ correction_suggestions = <<>> /\ summary = None
AnomalyIdle == transactions = <<>> /\ anomalies = <<>>
RerunIdle ==
    /\ second_result = None
    /\ other_group = <<>> /\ other_wallets = <<>> /\ other_pattern = None
OthersIdle ==
    DustIdle /\ LinkIdle /\ CorrectionsIdle /\ AnomalyIdle /\ RerunIdle

(***************************************************************************)
(* engine.py: ReconciliationEngine.reconcile                               *)
(***************************************************************************)
\* timedelta(minutes=30), in seconds.
time_window == 1800

\* Variant of exact_match that also asks for equal amounts.
exact_match_same_amount(df_b, row_a) ==
    InOrder({i \in 1..Len(df_b) : /\ df_b[i].tx_id = row_a.tx_id
                                  /\ df_b[i].amount = row_a.amount})

\* df_b[df_b['tx_id'] == row_a['tx_id']]: the rows of B carrying row_a's
\* identifier, in B order (row labels).  Consumed rows are not excluded.
exact_match(df_b, row_a) ==
    InOrder({i \in 1..Len(df_b) : df_b[i].tx_id = row_a.tx_id})

\* Tier 1 is entered only for a truthy tx_id and taken when a row was found.
tier1_hit(df_b, row_a) ==
    row_a.tx_id # "" /\ exact_match(df_b, row_a) # <<>>

\* Variant of candidates whose window is open at its upper end.
candidates_open_upper(df_b, row_a, matched_indices_b) ==
    LET time_lower == row_a.timestamp - time_window
        time_upper == row_a.timestamp + time_window
    IN  InOrder({i \in 1..Len(df_b) : /\ df_b[i].timestamp >= time_lower
                                      /\ df_b[i].timestamp < time_upper
                                      /\ i \notin matched_indices_b})

\* Variant of candidates that keeps the consumed rows.
candidates_with_consumed(df_b, row_a, matched_indices_b) ==
    LET time_lower == row_a.timestamp - time_window
        time_upper == row_a.timestamp + time_window
    IN  InOrder({i \in 1..Len(df_b) : /\ df_b[i].timestamp >= time_lower
                                      /\ df_b[i].timestamp <= time_upper})

\* The unconsumed rows of B inside [timestamp - 30 min, timestamp + 30 min].
candidates(df_b, row_a, matched_indices_b) ==
    LET time_lower == row_a.timestamp - time_window
        time_upper == row_a.timestamp + time_window
    IN  InOrder({i \in 1..Len(df_b) : /\ df_b[i].timestamp >= time_lower
                                      /\ df_b[i].timestamp <= time_upper
                                      /\ i \notin matched_indices_b})

\* deviation = |a - b| / |a|, for a # 0, as a fraction.
deviation(row_a, row_b) ==
    <<Abs(row_a.amount - row_b.amount), Abs(row_a.amount)>>

\* deviation <= 0.001
within_tolerance(row_a, row_b) ==
    FracGE(<<1, 1000>>, deviation(row_a, row_b))

\* Variant of confidence_of that scales the deviation by 1000.
confidence_of_permille(row_a, row_b) ==
    <<Abs(row_a.amount) - 1000 * Abs(row_a.amount - row_b.amount),
      Abs(row_a.amount)>>

\* confidence = 1.0 - deviation * 100
confidence_of(row_a, row_b) ==
    LET d == deviation(row_a, row_b)
    IN  <<d[2] - 100 * d[1], d[2]>>

\* best_confidence >= 0.9
accepted(best_confidence) == FracGE(best_confidence, <<9, 10>>)

\* The scan of the candidates: best_match is the row label (0 for None).
RECURSIVE best_scan(_, _, _, _, _)
best_scan(df_b, row_a, cands, k, best) ==
    IF k > Len(cands) THEN best
    ELSE LET idx_b == cands[k]
             row_b == df_b[idx_b]
         IN  IF row_a.amount = 0
             THEN best_scan(df_b, row_a, cands, k + 1, best)
             ELSE IF /\ within_tolerance(row_a, row_b)
                     /\ FracGT(confidence_of(row_a, row_b), best.best_confidence)
                  THEN best_scan(df_b, row_a, cands, k + 1,
                                 [best_match |-> idx_b,
                                  best_confidence |-> confidence_of(row_a, row_b)])
                  ELSE best_scan(df_b, row_a, cands, k + 1, best)

\* Variant of missing_in_a_indices that forgets the consumed rows.
missing_in_a_indices_all(df_b, matched_indices_b) ==
    1..Len(df_b)

\* set(df_b.index) - matched_indices_b
missing_in_a_indices(df_b, matched_indices_b) ==
    (1..Len(df_b)) \ matched_indices_b

\* The loop over the rows of A.  idx_a and idx_b are the row labels of the
\* two data frames; they are recorded in each entry to tell apart rows with
\* equal contents.
RECURSIVE reconcile_loop(_, _, _, _)
reconcile_loop(df_a, df_b, idx_a, acc) ==
    IF idx_a > Len(df_a) THEN acc
    ELSE
      LET row_a == df_a[idx_a] IN
      IF tier1_hit(df_b, row_a)
      THEN LET idx_b == exact_match(df_b, row_a)[1] IN
           reconcile_loop(df_a, df_b, idx_a + 1,
             [acc EXCEPT
                !.matched = Append(@, [source_a |-> row_a, source_b |-> df_b[idx_b],
                                       confidence |-> <<1, 1>>,
                                       match_type |-> "EXACT_TXID",
                                       idx_a |-> idx_a, idx_b |-> idx_b]),
                !.matched_indices_b = @ \cup {idx_b}])
      ELSE
        LET best == best_scan(df_b, row_a,
                              candidates(df_b, row_a, acc.matched_indices_b), 1,
                              [best_match |-> 0, best_confidence |-> <<0, 1>>])
        IN  IF best.best_match # 0 /\ accepted(best.best_confidence)
            THEN reconcile_loop(df_a, df_b, idx_a + 1,
                   [acc EXCEPT
                      !.matched = Append(@, [source_a |-> row_a,
                                             source_b |-> df_b[best.best_match],
                                             confidence |-> best.best_confidence,
                                             match_type |-> "FUZZY_TIME_AMOUNT",
                                             idx_a |-> idx_a,
                                             idx_b |-> best.best_match]),
                      !.matched_indices_b = @ \cup {best.best_match}])
            ELSE reconcile_loop(df_a, df_b, idx_a + 1,
                   [acc EXCEPT
                      !.conflicts = Append(@, [source_a |-> row_a,
                                               source_b |-> None,
                                               issue |-> "MISSING_IN_BLOCKCHAIN",
                                               idx_a |-> idx_a])])

\* What reconcile returns when B is empty and A is not.
empty_b_result(df_a) ==
    [matched |-> <<>>, conflicts |-> <<>>, missing_in_a |-> {}]

\* The three returned collections, from the loop's final bookkeeping;
\* missing_in_a is the set of row labels of B that are returned.
reconcile_outputs(df_b, acc) ==
    [matched |-> acc.matched, conflicts |-> acc.conflicts,
     missing_in_a |-> missing_in_a_indices(df_b, acc.matched_indices_b)]

\* Variant of fresh_matched_indices_b that keeps the marks of an earlier
\* call.
kept_matched_indices_b(leftover) == leftover

\* "matched_indices_b = set()": each call starts without consumed rows,
\* whatever rows an earlier call has consumed.
fresh_matched_indices_b(leftover) == {}

\* A call of reconcile made after a call that consumed the rows leftover.
reconcile_after(df_a, df_b, leftover) ==
    IF df_a = <<>>
    THEN [matched |-> <<>>, conflicts |-> <<>>, missing_in_a |-> 1..Len(df_b)]
    ELSE IF df_b = <<>>
    THEN empty_b_result(df_a)
    ELSE reconcile_outputs(df_b,
             reconcile_loop(df_a, df_b, 1,
                 [matched |-> <<>>, conflicts |-> <<>>,
                  matched_indices_b |-> fresh_matched_indices_b(leftover)]))

\* reconcile(source_a, source_b) -> (matched, conflicts, missing_in_a)
reconcile(df_a, df_b) == reconcile_after(df_a, df_b, {})

(***************************************************************************)
(* ordinals_detector.py: the five pattern rules and detect_patterns.       *)
(* withdrawals and deposits are kept as the positions of the records in    *)
(* tx_group (Python keeps references to the record objects); a correction  *)
(* carries the record as "tx" and its position as "pos".  A suggestion's   *)
(* free-text fields (reason, warning) and its ordiscan_link are not part   *)
(* of the modelled record.                                                 *)
(***************************************************************************)
\* DUST_THRESHOLDS["max"] = 0.00001 BTC
DUST_THRESHOLDS_max == 1000

\* Variant of is_dust with an exclusive ceiling.
is_dust_below(amount) == Abs(amount) < DUST_THRESHOLDS_max

\* return abs(amount) <= DUST_THRESHOLDS["max"]
is_dust(amount) == Abs(amount) <= DUST_THRESHOLDS_max

\* [t for t in tx_group if t.tx_type in ['Withdrawal', 'Send']]
withdrawals_of(group) ==
    InOrder({i \in 1..Len(group) : group[i].tx_type \in {"Withdrawal", "Send"}})

\* [t for t in tx_group if t.tx_type in ['Deposit', 'Receive']]
deposits_of(group) ==
    InOrder({i \in 1..Len(group) : group[i].tx_type \in {"Deposit", "Receive"}})

\* all(is_dust(d.amount) for d in deposits)
all_dust(group, deposits) ==
    \A k \in 1..Len(deposits) : is_dust(group[deposits[k]].amount)

\* next((d for d in deposits if d.source == 'BLOCKCHAIN'), deposits[0])
blockchain_deposit(group, deposits) ==
    LET found == InOrder({k \in 1..Len(deposits) :
                             group[deposits[k]].source = "BLOCKCHAIN"})
    IN  IF found # <<>> THEN deposits[found[1]] ELSE deposits[1]

\* Variant of detect_mint_buy_pattern that asks for exactly one withdrawal.
detect_mint_buy_pattern_single(group) ==
    LET withdrawals == withdrawals_of(group)
        deposits == deposits_of(group)
    IN  IF /\ Len(withdrawals) = 1 /\ deposits # <<>>
           /\ all_dust(group, deposits)
           /\ Len(deposits) = 1
        THEN [pattern |-> "MINT_BUY",
              confidence |-> <<9, 10>>,
              severity |-> "HIGH",
              tax_impact |-> "ESTABLISHES_COST_BASIS",
              affected_transactions |-> group,
              corrections |-> <<
                 [tx |-> group[deposits[1]], pos |-> deposits[1],
                  action |-> "IGNORE"],
                 [tx |-> group[withdrawals[1]], pos |-> withdrawals[1],
                  action |-> "CHANGE_TO_TRADE",
                  sent_asset |-> "BTC",
                  sent_amount |-> Abs(group[withdrawals[1]].amount),
                  received_asset |-> "ORDINAL/RUNE",
                  received_quantity |-> 1,
                  transaction |-> deposits[1]] >>]
        ELSE None

detect_mint_buy_pattern(group) ==
    LET withdrawals == withdrawals_of(group)
        deposits == deposits_of(group)
    IN  IF /\ withdrawals # <<>> /\ deposits # <<>>
           /\ all_dust(group, deposits)
           /\ Len(deposits) = 1
        THEN [pattern |-> "MINT_BUY",
              confidence |-> <<9, 10>>,
              severity |-> "HIGH",
              tax_impact |-> "ESTABLISHES_COST_BASIS",
              affected_transactions |-> group,
              corrections |-> <<
                 [tx |-> group[deposits[1]], pos |-> deposits[1],
                  action |-> "IGNORE"],
                 [tx |-> group[withdrawals[1]], pos |-> withdrawals[1],
                  action |-> "CHANGE_TO_TRADE",
                  sent_asset |-> "BTC",
                  sent_amount |-> Abs(group[withdrawals[1]].amount),
                  received_asset |-> "ORDINAL/RUNE",
                  received_quantity |-> 1,
                  transaction |-> deposits[1]] >>]
        ELSE None

\* The IGNORE corrections of a bulk mint, one per deposit, in order.
ignore_corrections(group, deposits) ==
    [k \in 1..Len(deposits) |->
        [tx |-> group[deposits[k]], pos |-> deposits[k], action |-> "IGNORE"]]

\* Variant of detect_bulk_mint_pattern that reports a received quantity of 1.
detect_bulk_mint_pattern_one(group) ==
    LET withdrawals == withdrawals_of(group)
        deposits == deposits_of(group)
    IN  IF /\ Len(withdrawals) = 1 /\ Len(deposits) > 1
           /\ all_dust(group, deposits)
        THEN [pattern |-> "BULK_MINT",
              confidence |-> <<95, 100>>,
              severity |-> "HIGH",
              tax_impact |-> "ESTABLISHES_COST_BASIS",
              affected_transactions |-> group,
              corrections |->
                 ignore_corrections(group, deposits) \o
                 << [tx |-> group[withdrawals[1]], pos |-> withdrawals[1],
                     action |-> "CHANGE_TO_TRADE",
                     sent_asset |-> "BTC",
                     sent_amount |-> Abs(group[withdrawals[1]].amount),
                     received_asset |-> "ORDINAL/RUNE",
                     received_quantity |-> 1,
                     transaction |-> blockchain_deposit(group, deposits)] >>]
        ELSE None

detect_bulk_mint_pattern(group) ==
    LET withdrawals == withdrawals_of(group)
        deposits == deposits_of(group)
    IN  IF /\ Len(withdrawals) = 1 /\ Len(deposits) > 1
           /\ all_dust(group, deposits)
        THEN [pattern |-> "BULK_MINT",
              confidence |-> <<95, 100>>,
              severity |-> "HIGH",
              tax_impact |-> "ESTABLISHES_COST_BASIS",
              affected_transactions |-> group,
              corrections |->
                 ignore_corrections(group, deposits) \o
                 << [tx |-> group[withdrawals[1]], pos |-> withdrawals[1],
                     action |-> "CHANGE_TO_TRADE",
                     sent_asset |-> "BTC",
                     sent_amount |-> Abs(group[withdrawals[1]].amount),
                     received_asset |-> "ORDINAL/RUNE",
                     received_quantity |-> Len(deposits),
                     transaction |-> blockchain_deposit(group, deposits)] >>]
        ELSE None

\* Variant of detect_gas_fee_pattern that looks at the smallest outgoing
\* record instead of the first.
detect_gas_fee_pattern_any(group) ==
    LET withdrawals == withdrawals_of(group)
        deposits == deposits_of(group)
    IN  IF /\ withdrawals # <<>> /\ deposits = <<>>
           /\ \E k \in 1..Len(withdrawals) :
                 Abs(group[withdrawals[k]].amount) < 50000
        THEN [pattern |-> "GAS_FEE",
              confidence |-> <<8, 10>>,
              severity |-> "LOW",
              tax_impact |-> "TAX_DEDUCTIBLE",
              affected_transactions |-> group,
              corrections |-> <<
                 [tx |-> group[withdrawals[1]], pos |-> withdrawals[1],
                  action |-> "CHANGE_TO_FEE"] >>]
        ELSE None


\* abs(withdrawals[0].amount) < 0.0005
GAS_FEE_LIMIT == 50000

detect_gas_fee_pattern(group) ==
    LET withdrawals == withdrawals_of(group)
        deposits == deposits_of(group)
    IN  IF /\ withdrawals # <<>> /\ deposits = <<>>
           /\ Abs(group[withdrawals[1]].amount) < GAS_FEE_LIMIT
        THEN [pattern |-> "GAS_FEE",
              confidence |-> <<8, 10>>,
              severity |-> "LOW",
              tax_impact |-> "TAX_DEDUCTIBLE",
              affected_transactions |-> group,
              corrections |-> <<
                 [tx |-> group[withdrawals[1]], pos |-> withdrawals[1],
                  action |-> "CHANGE_TO_FEE"] >>]
        ELSE None

\* deposit_tx.metadata['inscription_id'][:16]
INSCRIPTION_SHOWN == 16

\* Variant of sale_asset_name that prefers the rune name to the
\* inscription id.
sale_asset_name_rune_first(deposit_tx) ==
    LET metadata == deposit_tx.metadata
        inscription_id == metadata_get(metadata, "inscription_id", <<>>)
        rune_name == metadata_get(metadata, "rune_name", "")
        asset_type == metadata_get(metadata, "asset_type", "")
    IN  IF ~metadata_truthy(metadata)
        THEN <<"ORDINAL/RUNE (specify which asset was sold)">>
        ELSE IF rune_name # ""
        THEN <<rune_name>>
        ELSE IF inscription_id # <<>>
        THEN <<"Ordinal ">>
             \o SubSeq(inscription_id, 1,
                       IF Len(inscription_id) < INSCRIPTION_SHOWN
                       THEN Len(inscription_id) ELSE INSCRIPTION_SHOWN)
             \o <<"...">>
        ELSE IF asset_type = "ORDINAL"
        THEN <<"Ordinal (check transaction details)">>
        ELSE IF asset_type = "RUNE"
        THEN <<"Rune (check transaction details)">>
        ELSE <<"ORDINAL/RUNE (specify which asset was sold)">>

\* The sent-asset label of a SALE, from the deposit's metadata, as the
\* pieces of the string: f"Ordinal {inscription_id[:16]}..." is the stem,
\* the first 16 characters and the dots.  A missing key and an empty value
\* are both falsy.
sale_asset_name(deposit_tx) ==
    LET metadata == deposit_tx.metadata
        inscription_id == metadata_get(metadata, "inscription_id", <<>>)
        rune_name == metadata_get(metadata, "rune_name", "")
        asset_type == metadata_get(metadata, "asset_type", "")
    IN  IF ~metadata_truthy(metadata)
        THEN <<"ORDINAL/RUNE (specify which asset was sold)">>
        ELSE IF inscription_id # <<>>
        THEN <<"Ordinal ">>
             \o SubSeq(inscription_id, 1,
                       IF Len(inscription_id) < INSCRIPTION_SHOWN
                       THEN Len(inscription_id) ELSE INSCRIPTION_SHOWN)
             \o <<"...">>
        ELSE IF rune_name # ""
        THEN <<rune_name>>
        ELSE IF asset_type = "ORDINAL"
        THEN <<"Ordinal (check transaction details)">>
        ELSE IF asset_type = "RUNE"
        THEN <<"Rune (check transaction details)">>
        ELSE <<"ORDINAL/RUNE (specify which asset was sold)">>

\* Variant of detect_sale_pattern that reports the last incoming record.
detect_sale_pattern_last(group, wallets) ==
    LET withdrawals == withdrawals_of(group)
        deposits == deposits_of(group)
        last == IF deposits = <<>> THEN 0 ELSE deposits[Len(deposits)]
    IN  IF /\ deposits # <<>> /\ withdrawals = <<>>
           /\ ~is_dust(group[last].amount)
        THEN [pattern |-> "SALE",
              confidence |-> <<7, 10>>,
              severity |-> "HIGH",
              tax_impact |-> "TAXABLE_INCOME",
              affected_transactions |-> group,
              corrections |-> <<
                 [tx |-> group[last], pos |-> last,
                  action |-> "CHANGE_TO_TRADE",
                  sent_asset |-> <<"ORDINAL/RUNE (specify which asset was sold)">>,
                  sent_amount |-> "USER_INPUT_REQUIRED",
                  received_asset |-> "BTC",
                  received_amount |-> group[last].amount,
                  transaction |-> last] >>]
        ELSE None


\* Variant of detect_sale_pattern that books a sale only when no own
\* address is tracked.
detect_sale_pattern_unowned(group, wallets) ==
    LET withdrawals == withdrawals_of(group)
        deposits == deposits_of(group)
    IN  IF /\ deposits # <<>> /\ withdrawals = <<>>
           /\ ~is_dust(group[deposits[1]].amount)
           /\ wallets = <<>>
        THEN [pattern |-> "SALE",
              confidence |-> <<7, 10>>,
              severity |-> "HIGH",
              tax_impact |-> "TAXABLE_INCOME",
              affected_transactions |-> group,
              corrections |-> <<
                 [tx |-> group[deposits[1]], pos |-> deposits[1],
                  action |-> "CHANGE_TO_TRADE",
                  sent_asset |-> sale_asset_name(group[deposits[1]]),
                  sent_amount |-> "USER_INPUT_REQUIRED",
                  received_asset |-> "BTC",
                  received_amount |-> group[deposits[1]].amount,
                  transaction |-> deposits[1]] >>]
        ELSE None


detect_sale_pattern(group, wallets) ==
    LET withdrawals == withdrawals_of(group)
        deposits == deposits_of(group)
    IN  IF /\ deposits # <<>> /\ withdrawals = <<>>
           /\ ~is_dust(group[deposits[1]].amount)
        THEN [pattern |-> "SALE",
              confidence |-> <<7, 10>>,
              severity |-> "HIGH",
              tax_impact |-> "TAXABLE_INCOME",
              affected_transactions |-> group,
              corrections |-> <<
                 [tx |-> group[deposits[1]], pos |-> deposits[1],
                  action |-> "CHANGE_TO_TRADE",
                  sent_asset |-> sale_asset_name(group[deposits[1]]),
                  sent_amount |-> "USER_INPUT_REQUIRED",
                  received_asset |-> "BTC",
                  received_amount |-> group[deposits[1]].amount,
                  transaction |-> deposits[1]] >>]
        ELSE None

\* Variant of detect_self_transfer_pattern whose tolerance is inclusive.
detect_self_transfer_pattern_inclusive(group, wallets) ==
    LET withdrawals == withdrawals_of(group)
        deposits == deposits_of(group)
    IN  IF /\ Len(withdrawals) = 1 /\ Len(deposits) = 1
           /\ Abs(Abs(group[withdrawals[1]].amount) - group[deposits[1]].amount)
                 <= 10000
        THEN [pattern |-> "SELF_TRANSFER",
              confidence |-> <<85, 100>>,
              severity |-> "MEDIUM",
              tax_impact |-> "NON_TAXABLE",
              affected_transactions |-> group,
              corrections |-> <<
                 [txs |-> <<group[withdrawals[1]], group[deposits[1]]>>,
                  pos |-> <<withdrawals[1], deposits[1]>>,
                  action |-> "MERGE_AS_TRANSFER"] >>]
        ELSE None


\* abs(abs(w.amount) - d.amount) < 0.0001
SELF_TRANSFER_TOLERANCE == 10000

detect_self_transfer_pattern(group, wallets) ==
    LET withdrawals == withdrawals_of(group)
        deposits == deposits_of(group)
    IN  IF /\ Len(withdrawals) = 1 /\ Len(deposits) = 1
           /\ Abs(Abs(group[withdrawals[1]].amount) - group[deposits[1]].amount)
                 < SELF_TRANSFER_TOLERANCE
        THEN [pattern |-> "SELF_TRANSFER",
              confidence |-> <<85, 100>>,
              severity |-> "MEDIUM",
              tax_impact |-> "NON_TAXABLE",
              affected_transactions |-> group,
              corrections |-> <<
                 [txs |-> <<group[withdrawals[1]], group[deposits[1]]>>,
                  pos |-> <<withdrawals[1], deposits[1]>>,
                  action |-> "MERGE_AS_TRANSFER"] >>]
        ELSE None

\* Variant of detect_patterns that tries SELF_TRANSFER before MINT_BUY.
detect_patterns_self_transfer_first(group, wallets) ==
    IF detect_bulk_mint_pattern(group) # None
    THEN detect_bulk_mint_pattern(group)
    ELSE IF detect_self_transfer_pattern(group, wallets) # None
    THEN detect_self_transfer_pattern(group, wallets)
    ELSE IF detect_mint_buy_pattern(group) # None
    THEN detect_mint_buy_pattern(group)
    ELSE IF detect_gas_fee_pattern(group) # None
    THEN detect_gas_fee_pattern(group)
    ELSE IF detect_sale_pattern(group, wallets) # None
    THEN detect_sale_pattern(group, wallets)
    ELSE None

\* "if pattern: return pattern": a suggestion dict is truthy, None is not.
detect_patterns(group, wallets) ==
    IF detect_bulk_mint_pattern(group) # None
    THEN detect_bulk_mint_pattern(group)
    ELSE IF detect_mint_buy_pattern(group) # None
    THEN detect_mint_buy_pattern(group)
    ELSE IF detect_self_transfer_pattern(group, wallets) # None
    THEN detect_self_transfer_pattern(group, wallets)
    ELSE IF detect_gas_fee_pattern(group) # None
    THEN detect_gas_fee_pattern(group)
    ELSE IF detect_sale_pattern(group, wallets) # None
    THEN detect_sale_pattern(group, wallets)
    ELSE None

(***************************************************************************)
(* ordinals_detector.py: get_ordiscan_link.  An identifier is a sequence   *)
(* of one-character strings; a missing link (Python's None) is the empty   *)
(* sequence, a link is the URL stem followed by the identifier.            *)
(***************************************************************************)
NoLink == <<>>

\* '0123456789abcdefABCDEF'
HexDigits == {"0", "1", "2", "3", "4", "5", "6", "7", "8", "9",
              "a", "b", "c", "d", "e", "f", "A", "B", "C", "D", "E", "F"}

XVERSE_prefix == <<"X", "V", "E", "R", "S", "E", "_">>
CEX_prefix == <<"C", "E", "X", "_">>

\* str.startswith
startswith(s, prefix) ==
    /\ Len(s) >= Len(prefix)
    /\ SubSeq(s, 1, Len(prefix)) = prefix

\* '_' in tx_id[:20]
underscore_in_head(s) ==
    \E i \in 1..(IF Len(s) < 20 THEN Len(s) ELSE 20) : s[i] = "_"

\* Variant of get_ordiscan_link that accepts 64 characters or more.
get_ordiscan_link_at_least(tx_id) ==
    IF tx_id = <<>> THEN NoLink
    ELSE IF \/ startswith(tx_id, XVERSE_prefix)
            \/ startswith(tx_id, CEX_prefix)
            \/ underscore_in_head(tx_id)
    THEN NoLink
    ELSE IF Len(tx_id) >= 64 /\ \A i \in 1..Len(tx_id) : tx_id[i] \in HexDigits
    THEN <<"https://ordiscan.com/tx/">> \o tx_id
    ELSE NoLink

get_ordiscan_link(tx_id) ==
    IF tx_id = <<>> THEN NoLink
    ELSE IF \/ startswith(tx_id, XVERSE_prefix)
            \/ startswith(tx_id, CEX_prefix)
            \/ underscore_in_head(tx_id)
    THEN NoLink
    ELSE IF Len(tx_id) = 64 /\ \A i \in 1..Len(tx_id) : tx_id[i] \in HexDigits
    THEN <<"https://ordiscan.com/tx/">> \o tx_id
    ELSE NoLink

(***************************************************************************)
(* engine.py: ReconciliationEngine.reconcile_with_corrections.  A cluster  *)
(* holds references to the record objects of source_a and source_b: a      *)
(* reference is the collection ("A" or "B") and the position in it.  A     *)
(* dict is a sequence of [key, members] in insertion order; a minute key   *)
(* "%Y-%m-%d %H:%M" is the first second of the minute, tagged "time", an   *)
(* identifier key is tagged "txid" (no identifier has the shape of a       *)
(* minute key).  Timestamps are seconds since the epoch, in UTC.           *)
(***************************************************************************)
\* tx.timestamp.strftime("%Y-%m-%d %H:%M")
minute_of(timestamp) == timestamp - (timestamp % 60)

\* timedelta(minutes=2).total_seconds()
corrections_time_window == 120

as_refs(src, positions) ==
    [k \in 1..Len(positions) |-> [src |-> src, idx |-> positions[k]]]

deref(a, b, ref) == IF ref.src = "A" THEN a[ref.idx] ELSE b[ref.idx]

\* Step 1: the keys of cex_groups, each at the place of its first record.
cex_group_keys(a) ==
    LET firsts == InOrder({i \in 1..Len(a) :
                     \A j \in 1..(i - 1) :
                        minute_of(a[j].timestamp) # minute_of(a[i].timestamp)})
    IN  [k \in 1..Len(firsts) |-> minute_of(a[firsts[k]].timestamp)]

\* cex_groups[time_key]
cex_txs(a, time_key) ==
    InOrder({i \in 1..Len(a) : minute_of(a[i].timestamp) = time_key})

\* Variant of matching_blockchain_txs that measures the 2 minutes from the
\* timestamps of the ledger records of the minute.
matching_blockchain_txs_from_record(a, b, target_time) ==
    InOrder({j \in 1..Len(b) :
        \E i \in 1..Len(a) :
           /\ minute_of(a[i].timestamp) = target_time
           /\ Abs(b[j].timestamp - a[i].timestamp) <= corrections_time_window})

\* Step 2: the records of source_b within 2 minutes of the start of the
\* minute, whatever other cluster already holds them.
matching_blockchain_txs(a, b, target_time) ==
    InOrder({j \in 1..Len(b) :
        Abs(b[j].timestamp - target_time) <= corrections_time_window})

\* all_groups after step 2.
ledger_groups(a, b) ==
    LET keys == cex_group_keys(a)
    IN  [k \in 1..Len(keys) |->
           [key |-> <<"time", keys[k]>>,
            members |-> as_refs("A", cex_txs(a, keys[k]))
                        \o as_refs("B", matching_blockchain_txs(a, b, keys[k]))]]

\* Step 3: the identifiers of the BLOCKCHAIN records held by a cluster.
matched_blockchain_txids(groups, a, b) ==
    UNION {{deref(a, b, groups[g].members[m]).tx_id :
               m \in {n \in 1..Len(groups[g].members) :
                        /\ deref(a, b, groups[g].members[n]).source = "BLOCKCHAIN"
                        /\ deref(a, b, groups[g].members[n]).tx_id # ""}} :
           g \in 1..Len(groups)}

\* [tx for tx in source_b if tx.tx_id and tx.tx_id not in matched_blockchain_txids]
unmatched_blockchain(groups, a, b) ==
    InOrder({j \in 1..Len(b) :
        /\ b[j].tx_id # ""
        /\ b[j].tx_id \notin matched_blockchain_txids(groups, a, b)})

\* ordinals_detector.py: group_transactions_by_txid, over the records of b
\* at the given positions.
group_transactions_by_txid(b, txs) ==
    LET with_id == {k \in 1..Len(txs) : b[txs[k]].tx_id # ""}
        firsts == InOrder({k \in with_id :
                     \A l \in with_id :
                        l < k => b[txs[l]].tx_id # b[txs[k]].tx_id})
        same(k) == InOrder({txs[l] : l \in {l \in with_id :
                       b[txs[l]].tx_id = b[txs[k]].tx_id}})
    IN  [n \in 1..Len(firsts) |->
           [key |-> <<"txid", b[txs[firsts[n]]].tx_id>>,
            members |-> as_refs("B", same(firsts[n]))]]

\* all_groups after all_groups.update(blockchain_groups).
build_all_groups(a, b) ==
    LET groups == ledger_groups(a, b)
    IN  groups \o group_transactions_by_txid(b, unmatched_blockchain(groups, a, b))

\* The list a cluster's references stand for, as passed to detect_patterns.
tx_group_of(a, b, group) ==
    [k \in 1..Len(group.members) |-> deref(a, b, group.members[k])]

\* "for group_key, tx_group in all_groups.items(): ... if pattern: append"
RECURSIVE detect_loop(_, _, _, _)
detect_loop(groups, a, b, wallets) ==
    IF groups = <<>> THEN <<>>
    ELSE LET found == detect_patterns(tx_group_of(a, b, Head(groups)), wallets)
         IN  (IF found # None THEN <<found>> ELSE <<>>)
             \o detect_loop(Tail(groups), a, b, wallets)

\* Variant of generate_summary whose by_pattern marks a label as present.
generate_summary_presence(suggestions) ==
    [total_issues |-> Len(suggestions),
     by_severity |->
        [s \in {"HIGH", "MEDIUM", "LOW"} |->
            Cardinality({k \in 1..Len(suggestions) : suggestions[k].severity = s})],
     by_pattern |->
        [p \in {suggestions[k].pattern : k \in 1..Len(suggestions)} |-> 1]]

\* _generate_summary
generate_summary(suggestions) ==
    [total_issues |-> Len(suggestions),
     by_severity |->
        [s \in {"HIGH", "MEDIUM", "LOW"} |->
            Cardinality({k \in 1..Len(suggestions) : suggestions[k].severity = s})],
     by_pattern |->
        [p \in {suggestions[k].pattern : k \in 1..Len(suggestions)} |->
            Cardinality({k \in 1..Len(suggestions) : suggestions[k].pattern = p})]]


(***************************************************************************)
(* anomaly.py: AnomalyDetector.detect_anomalies.  The data frame has one   *)
(* row per transaction, in list order; a finding carries, besides the      *)
(* dict's type, severity and tx_id, the row it was raised for.  A          *)
(* timestamp is in seconds from 2025-01-01T00:00:00Z.                      *)
(***************************************************************************)
\* Rule 1: (df['fee'] > 0) & (df['amount'] > 0) & (df['fee'] > df['amount'] * 0.1)
high_fee_txs(txs) ==
    InOrder({i \in 1..Len(txs) :
        /\ txs[i].fee > 0
        /\ txs[i].amount > 0
        /\ 10 * txs[i].fee > txs[i].amount})

\* valid_tx_ids[valid_tx_ids.duplicated(subset=['tx_id'], keep=False)]
duplicates(txs) ==
    InOrder({i \in 1..Len(txs) :
        /\ txs[i].tx_id # ""
        /\ \E j \in 1..Len(txs) : j # i /\ txs[j].tx_id = txs[i].tx_id})

\* Variant of duplicate_txid_rows without processed_dupes.
duplicate_txid_rows_all(txs) == duplicates(txs)

\* Rule 2: the rows of duplicates that raise a finding: for each
\* identifier the first one (processed_dupes).
duplicate_txid_rows(txs) ==
    LET dups == duplicates(txs)
    IN  InOrder({dups[k] : k \in {k \in 1..Len(dups) :
            \A l \in 1..(k - 1) : txs[dups[l]].tx_id # txs[dups[k]].tx_id}})

TAX_YEAR == 2025

SECONDS_OF_2025 == 365 * 86400

\* tx.timestamp.year, for the three years around TAX_YEAR.
year_of(timestamp) ==
    IF timestamp < 0 THEN TAX_YEAR - 1
    ELSE IF timestamp < SECONDS_OF_2025 THEN TAX_YEAR
    ELSE TAX_YEAR + 1

\* Variant of out_of_range_txs that names each identifier once.
out_of_range_txs_once(txs) ==
    InOrder({i \in 1..Len(txs) :
        /\ year_of(txs[i].timestamp) # TAX_YEAR
        /\ \A j \in 1..(i - 1) :
              year_of(txs[j].timestamp) # TAX_YEAR => txs[j].tx_id # txs[i].tx_id})

\* Rule 3: for tx in self.transactions: if tx.timestamp.year != TAX_YEAR
out_of_range_txs(txs) ==
    InOrder({i \in 1..Len(txs) : year_of(txs[i].timestamp) # TAX_YEAR})

findings(txs, rows, type, severity) ==
    [k \in 1..Len(rows) |->
        [type |-> type, severity |-> severity,
         tx_id |-> txs[rows[k]].tx_id, row |-> rows[k]]]

\* Variant of detect_anomalies that runs rule 3 before rules 1 and 2.
detect_anomalies_range_first(txs) ==
    IF txs = <<>> THEN <<>>
    ELSE findings(txs, out_of_range_txs(txs), "OUT_OF_RANGE", "MEDIUM")
         \o findings(txs, high_fee_txs(txs), "FEE_ANOMALY", "HIGH")
         \o findings(txs, duplicate_txid_rows(txs), "DUPLICATE_TXID", "CRITICAL")

detect_anomalies(txs) ==
    IF txs = <<>> THEN <<>>
    ELSE findings(txs, high_fee_txs(txs), "FEE_ANOMALY", "HIGH")
         \o findings(txs, duplicate_txid_rows(txs), "DUPLICATE_TXID", "CRITICAL")
         \o findings(txs, out_of_range_txs(txs), "OUT_OF_RANGE", "MEDIUM")


(***************************************************************************)
(* Inputs of reconcile: ledger (CEX) records and observed (BLOCKCHAIN)     *)
(* records.  The times put an observed record exactly 30 minutes, or 30    *)
(* minutes and a second, after or before a ledger record; the amounts put  *)
(* it at a deviation of exactly 0.1% (-999) or of 0.2% (-1002) from the    *)
(* ledger amount -1000.  Negative amounts (value sent) make both abs()     *)
(* calls of the deviation matter.  Observed records always carry an        *)
(* identifier (a transaction hash); ledger records may lack one.           *)
(***************************************************************************)
LedgerIds == {"", "ab"}
LedgerTimes == {0, 3601}
LedgerAmounts == {0, -1000}

ObservedIds == {"ab", "AB"}
ObservedTimes == {1800, 1801}
ObservedAmounts == {-999, -1002}

LedgerRecords ==
    {UnifiedTransaction(t, a, 0, id, "Buy", "CEX", NoMetadata) :
        t \in LedgerTimes, a \in LedgerAmounts, id \in LedgerIds}

ObservedRecords ==
    {UnifiedTransaction(t, a, 0, id, "Transfer", "BLOCKCHAIN", NoMetadata) :
        t \in ObservedTimes, a \in ObservedAmounts, id \in ObservedIds}

(***************************************************************************)
(* Specification of reconcile: Init draws the two collections, Reconcile   *)
(* applies the method.                                                     *)
(***************************************************************************)
Init ==
    /\ pc = "ready"
    /\ source_a \in SeqsUpTo(LedgerRecords, MaxA)
    /\ source_b \in SeqsUpTo(ObservedRecords, MaxB)
    /\ matched = <<>>
    /\ conflicts = <<>>
    /\ missing_in_a = {}
    /\ tx_group = <<>>
    /\ my_wallets = <<>>
    /\ pattern = None
    /\ OthersIdle

Reconcile ==
    /\ pc = "ready"
    /\ \E r \in {reconcile(source_a, source_b)} :
         /\ matched' = r.matched
         /\ conflicts' = r.conflicts
         /\ missing_in_a' = r.missing_in_a
    /\ pc' = "done"
    /\ UNCHANGED <<source_a, source_b, tx_group, my_wallets, pattern>>
    /\ UNCHANGED <<dust_vars, link_vars, corrections_vars, anomaly_vars, rerun_vars>>

Next == Reconcile

SpecReconcile == Init /\ [][Next]_vars

(***************************************************************************)
(* Specification of two calls of reconcile in succession on the same two   *)
(* lists.  The ledger records share one timestamp; the observed records    *)
(* are all within tolerance and lie at or just past the end of the window. *)
(***************************************************************************)
TwiceLedgerRecords == {r \in LedgerRecords : r.timestamp = 0}
TwiceObservedRecords == {r \in ObservedRecords : r.amount = -999}

InitTwice ==
    /\ pc = "ready"
    /\ source_a \in SeqsUpTo(TwiceLedgerRecords, MaxA)
    /\ source_b \in SeqsUpTo(TwiceObservedRecords, MaxB)
    /\ matched = <<>>
    /\ conflicts = <<>>
    /\ missing_in_a = {}
    /\ tx_group = <<>>
    /\ my_wallets = <<>>
    /\ pattern = None
    /\ OthersIdle

\* The second call; matched still holds the rows the first call consumed.
ReconcileAgain ==
    /\ pc = "done"
    /\ second_result' =
          reconcile_after(source_a, source_b,
                          {matched[k].idx_b : k \in 1..Len(matched)})
    /\ pc' = "again"
    /\ UNCHANGED <<source_a, source_b, matched, conflicts, missing_in_a,
                   tx_group, my_wallets, pattern>>
    /\ UNCHANGED <<dust_vars, link_vars, corrections_vars, anomaly_vars>>
    /\ UNCHANGED <<other_group, other_wallets, other_pattern>>

NextTwice == Reconcile \/ ReconcileAgain

SpecTwice == InitTwice /\ [][NextTwice]_vars


(***************************************************************************)
(* Inputs of reconcile for the choice among several fuzzy candidates.      *)
(* Against a ledger amount of -10000 the observed amounts -9999 and      *)
(* -10001 deviate by 0.01% (equal scores), -9995 by 0.05%, -9980 by     *)
(* 0.2% (outside the tolerance); an observed record at 1801 is outside the *)
(* window.  A ledger record with identifier "ab" consumes an observed      *)
(* record in tier 1.                                                       *)
(***************************************************************************)
FuzzyLedgerRecords ==
    {UnifiedTransaction(0, -10000, 0, id, "Buy", "CEX", NoMetadata) :
        id \in {"", "ab"}}

FuzzyObservedRecords ==
    {UnifiedTransaction(t, a, 0, "ab", "Transfer", "BLOCKCHAIN", NoMetadata) :
        t \in {0, 1801}, a \in {-9999, -10001, -9995, -9980}}

(***************************************************************************)
(* Specification of reconcile on these inputs.                             *)
(***************************************************************************)
InitFuzzy ==
    /\ pc = "ready"
    /\ source_a \in SeqsUpTo(FuzzyLedgerRecords, MaxA)
    /\ source_b \in SeqsUpTo(FuzzyObservedRecords, MaxB)
    /\ matched = <<>>
    /\ conflicts = <<>>
    /\ missing_in_a = {}
    /\ tx_group = <<>>
    /\ my_wallets = <<>>
    /\ pattern = None
    /\ OthersIdle

NextFuzzy == Reconcile

SpecFuzzy == InitFuzzy /\ [][NextFuzzy]_vars


(***************************************************************************)
(* Inputs of detect_patterns: a cluster of records.  Observed records are  *)
(* typed Deposit, Withdrawal or Internal (blockchain.py), ledger records   *)
(* carry the export's own labels, here Send and Receive.  Amounts follow   *)
(* the sign convention: sent value is negative, received value positive.   *)
(* 1000 satoshi is the dust ceiling, 1010 lies above it, 546 is the usual  *)
(* dust wrapper.                                                           *)
(***************************************************************************)
OutgoingAmounts == {-1000000, -546}
IncomingAmounts == {1000, 1010}

ClusterRecords ==
    {UnifiedTransaction(0, a, 0, "ab", "Withdrawal", "BLOCKCHAIN", NoMetadata) :
        a \in OutgoingAmounts}
    \cup {UnifiedTransaction(0, a, 0, "", "Send", "CEX", NoMetadata) :
        a \in OutgoingAmounts}
    \cup {UnifiedTransaction(0, a, 0, "ab", "Deposit", "BLOCKCHAIN", NoMetadata) :
        a \in IncomingAmounts}
    \cup {UnifiedTransaction(0, a, 0, "", "Receive", "CEX", NoMetadata) :
        a \in IncomingAmounts}
    \cup {UnifiedTransaction(0, 0, 0, "ab", "Internal", "BLOCKCHAIN", NoMetadata)}

WalletLists == {<<>>, <<"bc1qown">>}

(***************************************************************************)
(* Specification of detect_patterns: InitClassify draws the cluster and    *)
(* the address list, Classify applies the function.                        *)
(***************************************************************************)
InitClassify ==
    /\ pc = "ready"
    /\ source_a = <<>>
    /\ source_b = <<>>
    /\ matched = <<>>
    /\ conflicts = <<>>
    /\ missing_in_a = {}
    /\ tx_group \in SeqsUpTo(ClusterRecords, MaxGroup)
    /\ my_wallets \in WalletLists
    /\ pattern = None
    /\ OthersIdle

Classify ==
    /\ pc = "ready"
    /\ pattern' = detect_patterns(tx_group, my_wallets)
    /\ pc' = "done"
    /\ UNCHANGED <<source_a, source_b, matched, conflicts, missing_in_a,
                   tx_group, my_wallets>>
    /\ UNCHANGED <<dust_vars, link_vars, corrections_vars, anomaly_vars, rerun_vars>>

NextClassify == Classify

SpecClassify == InitClassify /\ [][NextClassify]_vars

(***************************************************************************)
(* Inputs of detect_sale_pattern: incoming records above the dust ceiling  *)
(* whose metadata is None, or a dict holding any of the three keys, each   *)
(* absent, empty or set.  A choice is the empty sequence for an absent key *)
(* and a one-element sequence for a value.  blockchain.py writes           *)
(* asset_type as 'ORDINAL', 'RUNE' or 'BTC'.  One inscription id has 16    *)
(* characters, the other 17, ending in "b".                                *)
(***************************************************************************)
InscriptionChoices ==
    {<<>>, << <<>> >>,
     << [i \in 1..16 |-> "a"] >>,
     << [i \in 1..17 |-> IF i = 17 THEN "b" ELSE "a"] >>}
RuneChoices == {<<>>, <<"">>, <<"DOG">>}
AssetTypeChoices == {<<>>, <<"ORDINAL">>, <<"RUNE">>, <<"BTC">>}

metadata_dict(inscription, rune, type) ==
    (IF inscription = <<>> THEN <<>> ELSE "inscription_id" :> inscription[1])
    @@ (IF rune = <<>> THEN <<>> ELSE "rune_name" :> rune[1])
    @@ (IF type = <<>> THEN <<>> ELSE "asset_type" :> type[1])

SaleMetadata ==
    {metadata_dict(i, r, t) :
        i \in InscriptionChoices, r \in RuneChoices, t \in AssetTypeChoices}
    \cup {MetadataNone}

SaleRecords ==
    {UnifiedTransaction(0, 1010, 0, "ab", "Deposit", "BLOCKCHAIN", m) :
        m \in SaleMetadata}

(***************************************************************************)
(* Specification of detect_patterns on clusters of tagged incoming         *)
(* records.                                                                *)
(***************************************************************************)
InitSaleTags ==
    /\ pc = "ready"
    /\ source_a = <<>>
    /\ source_b = <<>>
    /\ matched = <<>>
    /\ conflicts = <<>>
    /\ missing_in_a = {}
    /\ tx_group \in SeqsUpTo(SaleRecords, MaxSaleGroup)
    /\ my_wallets = <<>>
    /\ pattern = None
    /\ OthersIdle

NextSaleTags == Classify

SpecSaleTags == InitSaleTags /\ [][NextSaleTags]_vars


(***************************************************************************)
(* Specification of two calls of detect_patterns on one cluster, the       *)
(* second with another address list.                                       *)
(***************************************************************************)
WalletRecords ==
    {UnifiedTransaction(0, a, 0, "ab", "Withdrawal", "BLOCKCHAIN", NoMetadata) :
        a \in {-50000}}
    \cup {UnifiedTransaction(0, a, 0, "ab", "Deposit", "BLOCKCHAIN", NoMetadata) :
        a \in {1000, 30000, 49999}}

OtherWalletLists == WalletLists \cup {<<"bc1qown", "bc1qcold">>}

InitWallets ==
    /\ pc = "ready"
    /\ source_a = <<>>
    /\ source_b = <<>>
    /\ matched = <<>>
    /\ conflicts = <<>>
    /\ missing_in_a = {}
    /\ tx_group \in SeqsUpTo(WalletRecords, MaxGroup)
    /\ my_wallets \in OtherWalletLists
    /\ pattern = None
    /\ DustIdle /\ LinkIdle /\ CorrectionsIdle /\ AnomalyIdle
    /\ second_result = None
    /\ other_group = <<>>
    /\ other_wallets \in OtherWalletLists
    /\ other_pattern = None

ClassifyOtherWallets ==
    /\ pc = "done"
    /\ other_pattern' = detect_patterns(tx_group, other_wallets)
    /\ pc' = "again"
    /\ UNCHANGED <<source_a, source_b, matched, conflicts, missing_in_a,
                   tx_group, my_wallets, pattern>>
    /\ UNCHANGED <<dust_vars, link_vars, corrections_vars, anomaly_vars>>
    /\ UNCHANGED <<second_result, other_group, other_wallets>>

NextWallets == Classify \/ ClassifyOtherWallets

SpecWallets == InitWallets /\ [][NextWallets]_vars


(***************************************************************************)
(* Specification of two calls of detect_patterns on the same records       *)
(* listed in two orders.                                                   *)
(***************************************************************************)
OrderRecords ==
    {UnifiedTransaction(0, a, 0, "ab", "Withdrawal", "BLOCKCHAIN", NoMetadata) :
        a \in {-50000, -49999}}
    \cup {UnifiedTransaction(0, a, 0, "ab", "Deposit", "BLOCKCHAIN", NoMetadata) :
        a \in {1000, 30000}}

\* The lists holding the records of group, each once, in any order.
Reorderings(group) ==
    {[i \in 1..Len(group) |-> group[p[i]]] :
        p \in {q \in [1..Len(group) -> 1..Len(group)] :
                  \A i, j \in 1..Len(group) : q[i] = q[j] => i = j}}

InitOrder ==
    /\ pc = "ready"
    /\ source_a = <<>>
    /\ source_b = <<>>
    /\ matched = <<>>
    /\ conflicts = <<>>
    /\ missing_in_a = {}
    /\ tx_group \in SeqsUpTo(OrderRecords, MaxGroup)
    /\ my_wallets = <<>>
    /\ pattern = None
    /\ DustIdle /\ LinkIdle /\ CorrectionsIdle /\ AnomalyIdle
    /\ second_result = None
    /\ other_group \in Reorderings(tx_group)
    /\ other_wallets = <<>>
    /\ other_pattern = None

ClassifyReordered ==
    /\ pc = "done"
    /\ other_pattern' = detect_patterns(other_group, my_wallets)
    /\ pc' = "again"
    /\ UNCHANGED <<source_a, source_b, matched, conflicts, missing_in_a,
                   tx_group, my_wallets, pattern>>
    /\ UNCHANGED <<dust_vars, link_vars, corrections_vars, anomaly_vars>>
    /\ UNCHANGED <<second_result, other_group, other_wallets>>

NextOrder == Classify \/ ClassifyReordered

SpecOrder == InitOrder /\ [][NextOrder]_vars


(***************************************************************************)
(* Inputs of detect_patterns at the thresholds of SELF_TRANSFER, GAS_FEE   *)
(* and SALE.  Against an outgoing record of -20000 the incoming amounts    *)
(* 10001 and 29999 lie 9999 away, 10000 and 30000 lie exactly 10000 away   *)
(* (0.0001 BTC); -49999 and -50000 sit at the GAS_FEE limit of 0.0005 BTC; *)
(* 1000 and 1010 sit at the dust ceiling.                                  *)
(***************************************************************************)
ThresholdOutgoing == {-20000, -49999, -50000}
ThresholdIncoming == {1000, 1010, 10000, 10001, 29999, 30000}

ThresholdRecords ==
    {UnifiedTransaction(0, a, 0, "ab", "Withdrawal", "BLOCKCHAIN", NoMetadata) :
        a \in ThresholdOutgoing}
    \cup {UnifiedTransaction(0, a, 0, "ab", "Deposit", "BLOCKCHAIN", NoMetadata) :
        a \in ThresholdIncoming}

(***************************************************************************)
(* Specification of detect_patterns on clusters at the thresholds.         *)
(***************************************************************************)
InitThresholds ==
    /\ pc = "ready"
    /\ source_a = <<>>
    /\ source_b = <<>>
    /\ matched = <<>>
    /\ conflicts = <<>>
    /\ missing_in_a = {}
    /\ tx_group \in SeqsUpTo(ThresholdRecords, MaxGroup)
    /\ my_wallets \in WalletLists
    /\ pattern = None
    /\ OthersIdle

ClassifyAtThresholds ==
    /\ pc = "ready"
    /\ pattern' = detect_patterns(tx_group, my_wallets)
    /\ pc' = "done"
    /\ UNCHANGED <<source_a, source_b, matched, conflicts, missing_in_a,
                   tx_group, my_wallets>>
    /\ UNCHANGED <<dust_vars, link_vars, corrections_vars, anomaly_vars, rerun_vars>>

NextThresholds == ClassifyAtThresholds

SpecThresholds == InitThresholds /\ [][NextThresholds]_vars


(***************************************************************************)
(* Specification of is_dust: InitDust draws an amount in satoshi from both *)
(* sides of zero up to just above the dust ceiling, CheckDust applies the  *)
(* function.                                                               *)
(***************************************************************************)
InitDust ==
    /\ pc = "ready"
    /\ source_a = <<>>
    /\ source_b = <<>>
    /\ matched = <<>>
    /\ conflicts = <<>>
    /\ missing_in_a = {}
    /\ tx_group = <<>>
    /\ my_wallets = <<>>
    /\ pattern = None
    /\ arg_amount \in -MaxDustAmount..MaxDustAmount
    /\ dust = FALSE
    /\ LinkIdle /\ CorrectionsIdle /\ AnomalyIdle /\ RerunIdle

CheckDust ==
    /\ pc = "ready"
    /\ dust' = is_dust(arg_amount)
    /\ pc' = "done"
    /\ UNCHANGED <<source_a, source_b, matched, conflicts, missing_in_a,
                   tx_group, my_wallets, pattern, arg_amount>>
    /\ UNCHANGED <<link_vars, corrections_vars, anomaly_vars, rerun_vars>>

NextDust == CheckDust

SpecDust == InitDust /\ [][NextDust]_vars


(***************************************************************************)
(* Inputs of get_ordiscan_link: identifiers of every length up to          *)
(* MaxIdLen, made of one repeated character (hex lower case, hex upper     *)
(* case, a digit, or the non-hex letter g), optionally starting with a     *)
(* prefix that ingestion writes, and optionally with one character at the  *)
(* first, 20th, 21st or 64th place replaced by an underscore or a z.       *)
(***************************************************************************)
IdPrefixes == {<<>>, XVERSE_prefix, CEX_prefix}
FillChars == {"a", "F", "9", "g"}
DefectChars == {"_", "z"}
DefectPlaces == {0, 1, 20, 21, 64}

Identifier(prefix, fill, len, place, defect) ==
    [i \in 1..len |->
        IF i = place THEN defect
        ELSE IF i <= Len(prefix) THEN prefix[i]
        ELSE fill]

Identifiers ==
    {Identifier(p, c, n, k, d) :
        p \in IdPrefixes, c \in FillChars, n \in 0..MaxIdLen,
        k \in DefectPlaces, d \in DefectChars}

(***************************************************************************)
(* Specification of get_ordiscan_link.                                     *)
(***************************************************************************)
InitLink ==
    /\ pc = "ready"
    /\ source_a = <<>>
    /\ source_b = <<>>
    /\ matched = <<>>
    /\ conflicts = <<>>
    /\ missing_in_a = {}
    /\ tx_group = <<>>
    /\ my_wallets = <<>>
    /\ pattern = None
    /\ arg_tx_id \in Identifiers
    /\ ordiscan_link = NoLink
    /\ DustIdle /\ CorrectionsIdle /\ AnomalyIdle /\ RerunIdle

GetOrdiscanLink ==
    /\ pc = "ready"
    /\ ordiscan_link' = get_ordiscan_link(arg_tx_id)
    /\ pc' = "done"
    /\ UNCHANGED <<source_a, source_b, matched, conflicts, missing_in_a,
                   tx_group, my_wallets, pattern, arg_tx_id>>
    /\ UNCHANGED <<dust_vars, corrections_vars, anomaly_vars, rerun_vars>>

NextLink == GetOrdiscanLink

SpecLink == InitLink /\ [][NextLink]_vars


(***************************************************************************)
(* Inputs of reconcile_with_corrections.  Ledger records fall into the     *)
(* minutes starting at 0 (times 0 and 59) and at 180; an observed record   *)
(* at 120 lies within 2 minutes of both minutes, one at 121 of the second  *)
(* only, one at 301 of neither.  An observed record may lack an            *)
(* identifier (blockchain.py reads it with a default of '').               *)
(***************************************************************************)
CorrectionLedgerTimes == {0, 59, 180}
CorrectionObservedTimes == {120, 121, 301}
CorrectionObservedIds == {"", "ab", "cd"}

CorrectionLedgerRecords ==
    {UnifiedTransaction(t, -546, 0, "", "Send", "CEX", NoMetadata) :
        t \in CorrectionLedgerTimes}

CorrectionObservedRecords ==
    {UnifiedTransaction(t, 1010, 0, id, "Deposit", "BLOCKCHAIN", NoMetadata) :
        t \in CorrectionObservedTimes, id \in CorrectionObservedIds}

(***************************************************************************)
(* Specification of reconcile_with_corrections.                            *)
(***************************************************************************)
InitCorrections ==
    /\ pc = "ready"
    /\ source_a \in SeqsUpTo(CorrectionLedgerRecords, MaxA)
    /\ source_b \in SeqsUpTo(CorrectionObservedRecords, MaxB)
    /\ matched = <<>>
    /\ conflicts = <<>>
    /\ missing_in_a = {}
    /\ tx_group = <<>>
    /\ my_wallets \in WalletLists
    /\ pattern = None
    /\ CorrectionsIdle
    /\ DustIdle /\ LinkIdle /\ AnomalyIdle /\ RerunIdle

ReconcileWithCorrections ==
    /\ pc = "ready"
    /\ \E groups \in {build_all_groups(source_a, source_b)} :
         \E suggestions \in {detect_loop(groups, source_a, source_b, my_wallets)} :
            /\ all_groups' = groups
            /\ correction_suggestions' = suggestions
            /\ summary' = generate_summary(suggestions)
    /\ pc' = "done"
    /\ UNCHANGED <<source_a, source_b, matched, conflicts, missing_in_a,
                   tx_group, my_wallets, pattern>>
    /\ UNCHANGED <<dust_vars, link_vars, anomaly_vars, rerun_vars>>

NextCorrections == ReconcileWithCorrections

SpecCorrections == InitCorrections /\ [][NextCorrections]_vars


(***************************************************************************)
(* Inputs of detect_anomalies.  Amounts and fees in satoshi: against an    *)
(* amount of 0.1 BTC, received or sent, a fee of 0.02 is 20% and a fee of  *)
(* 0.01 is exactly 10%; an amount of zero carries a fee as well.  The      *)
(* identifiers "ab" and "cd" can each occur on several records; one record *)
(* lies in the last second of 2024, one in the last second of 2025 and    *)
(* one in the first second of 2026.                                        *)
(***************************************************************************)
AmountsAndFees ==
    {<<10000000, 2000000>>, <<10000000, 1000000>>,
     <<-10000000, 2000000>>, <<0, 2000000>>}

AnomalyRecords ==
    {UnifiedTransaction(0, p[1], p[2], id, "Buy", "CEX", NoMetadata) :
        p \in AmountsAndFees, id \in {"", "ab"}}
    \cup {UnifiedTransaction(t, 10000000, 0, "cd", "Buy", "CEX", NoMetadata) :
        t \in {0, -1, SECONDS_OF_2025 - 1, SECONDS_OF_2025}}

(***************************************************************************)
(* Specification of AnomalyDetector: InitAnomalies is the detector after   *)
(* construction over a list of records, DetectAnomalies the call.          *)
(***************************************************************************)
InitAnomalies ==
    /\ pc = "ready"
    /\ source_a = <<>>
    /\ source_b = <<>>
    /\ matched = <<>>
    /\ conflicts = <<>>
    /\ missing_in_a = {}
    /\ tx_group = <<>>
    /\ my_wallets = <<>>
    /\ pattern = None
    /\ transactions \in SeqsUpTo(AnomalyRecords, MaxTx)
    /\ anomalies = <<>>
    /\ DustIdle /\ LinkIdle /\ CorrectionsIdle /\ RerunIdle

DetectAnomalies ==
    /\ pc = "ready"
    /\ anomalies' = detect_anomalies(transactions)
    /\ pc' = "done"
    /\ UNCHANGED <<source_a, source_b, matched, conflicts, missing_in_a,
                   tx_group, my_wallets, pattern, transactions>>
    /\ UNCHANGED <<dust_vars, link_vars, corrections_vars, rerun_vars>>

NextAnomalies == DetectAnomalies

SpecAnomalies == InitAnomalies /\ [][NextAnomalies]_vars


(***************************************************************************)
(* Properties of reconcile.  They are stated over the inputs and the       *)
(* returned collections only.                                              *)
(***************************************************************************)
ReconcileDone == pc = "done"

\* The Match entries and the conflict entries made for row i of A, and the
\* Match entries whose observed side is row j of B.
MatchesOf(i) == {k \in 1..Len(matched) : matched[k].idx_a = i}
ConflictsOf(i) == {k \in 1..Len(conflicts) : conflicts[k].idx_a = i}
PartnersOf(j) == {k \in 1..Len(matched) : matched[k].idx_b = j}

SecondsApart(a, b) ==
    IF a.timestamp >= b.timestamp THEN a.timestamp - b.timestamp
    ELSE b.timestamp - a.timestamp

AmountGap(a, b) ==
    IF a.amount >= b.amount THEN a.amount - b.amount ELSE b.amount - a.amount

Magnitude(a) == IF a.amount >= 0 THEN a.amount ELSE -a.amount

\* |amountA - amountB| / |amountA| <= 0.001, amountA # 0.
DeviationAtMostTenthPercent(a, b) ==
    a.amount # 0 /\ 1000 * AmountGap(a, b) <= Magnitude(a)

\* C1: every A record appears in exactly one of matched and conflicts, once,
\* whatever the two collections are (empty ones included), so that
\* |matched| + |conflicts| = |A|.
C1_LedgerPartition ==
    ReconcileDone =>
        /\ \A i \in 1..Len(source_a) :
              Cardinality(MatchesOf(i)) + Cardinality(ConflictsOf(i)) = 1
        /\ Len(matched) + Len(conflicts) = Len(source_a)

\* C2: no B record is the observed side of more than one Match, and with two
\* non-empty inputs |matched| + |missingFromLedger| = |B|.
C2_ObservedConsumedOnce ==
    ReconcileDone =>
        /\ \A j \in 1..Len(source_b) : Cardinality(PartnersOf(j)) <= 1
        /\ (source_a # <<>> /\ source_b # <<>>) =>
              Len(matched) + Cardinality(missing_in_a) = Len(source_b)

\* C3: every B record is the observed side of some Match or is listed in
\* missingFromLedger, never both and never neither.
C3_ObservedPartition ==
    ReconcileDone =>
        /\ missing_in_a \subseteq 1..Len(source_b)
        /\ \A j \in 1..Len(source_b) :
              (j \in missing_in_a) <=> (PartnersOf(j) = {})

\* C3 witness: a run that returned one B record as matched and another as
\* missing.
C3_Witness ==
    /\ ReconcileDone
    /\ \E j1, j2 \in 1..Len(source_b) :
          /\ j1 \in missing_in_a
          /\ PartnersOf(j2) # {}

\* The first row of B, in B order, that carries the identifier id (0 if none).
FirstWithId(id) ==
    IF \E j \in 1..Len(source_b) : source_b[j].tx_id = id
    THEN CHOOSE j \in 1..Len(source_b) :
            /\ source_b[j].tx_id = id
            /\ \A h \in 1..(j - 1) : source_b[h].tx_id # id
    ELSE 0

\* C4: an A record with a non-empty identifier that some B record carries is
\* matched once, at EXACT_TXID with confidence 1.0, to the first such B
\* record, and is no conflict, whatever the amounts and timestamps.
C4_ExactTierPrecedence ==
    ReconcileDone =>
        \A i \in 1..Len(source_a) :
            (source_a[i].tx_id # "" /\ FirstWithId(source_a[i].tx_id) # 0) =>
                /\ ConflictsOf(i) = {}
                /\ Cardinality(MatchesOf(i)) = 1
                /\ \A k \in MatchesOf(i) :
                      /\ matched[k].match_type = "EXACT_TXID"
                      /\ matched[k].confidence = <<1, 1>>
                      /\ matched[k].idx_b = FirstWithId(source_a[i].tx_id)
                      /\ matched[k].source_b = source_b[matched[k].idx_b]
                      /\ matched[k].source_a = source_a[i]

\* C4 witness: an exact Match whose two records differ in amount by more
\* than the tolerance and lie more than 30 minutes apart, the B record not
\* being the first row of B.
C4_Witness ==
    /\ ReconcileDone
    /\ \E k \in 1..Len(matched) :
          /\ matched[k].match_type = "EXACT_TXID"
          /\ matched[k].idx_b = 2
          /\ SecondsApart(matched[k].source_a, matched[k].source_b) > 1800
          /\ ~DeviationAtMostTenthPercent(matched[k].source_a, matched[k].source_b)

\* C5: a fuzzy Match pairs records at most 30 minutes apart, and a B record
\* exactly 30 minutes from an A record is a candidate: an A record is never
\* left a conflict while an unconsumed B record exactly 30 minutes away is
\* within the amount tolerance.
C5_FuzzyWindow ==
    ReconcileDone =>
        /\ \A k \in 1..Len(matched) :
              matched[k].match_type = "FUZZY_TIME_AMOUNT" =>
                  SecondsApart(matched[k].source_a, matched[k].source_b) <= 1800
        /\ \A i \in 1..Len(source_a), j \in missing_in_a :
              (/\ ConflictsOf(i) # {}
               /\ SecondsApart(source_a[i], source_b[j]) = 1800) =>
                  ~DeviationAtMostTenthPercent(source_a[i], source_b[j])

\* C5 witness: one fuzzy Match exactly 30 minutes apart, and one conflict
\* whose only B record within the amount tolerance is 30 minutes and one
\* second away.
C5_Witness ==
    /\ ReconcileDone
    /\ \E k \in 1..Len(matched) :
          /\ matched[k].match_type = "FUZZY_TIME_AMOUNT"
          /\ SecondsApart(matched[k].source_a, matched[k].source_b) = 1800
    /\ \E i \in 1..Len(source_a), j \in missing_in_a :
          /\ ConflictsOf(i) # {}
          /\ SecondsApart(source_a[i], source_b[j]) = 1801
          /\ DeviationAtMostTenthPercent(source_a[i], source_b[j])

\* C6: a fuzzy Match has deviation <= 0.001 and confidence 1 - 100*deviation,
\* which lies in [0.9, 1.0]; an exact Match has confidence 1.0; and no A
\* record is left a conflict while an unconsumed B record inside the window
\* is within the tolerance (the 0.9 threshold rejects no eligible candidate).
C6_FuzzyTolerance ==
    ReconcileDone =>
        /\ \A k \in 1..Len(matched) :
              LET a == matched[k].source_a
                  b == matched[k].source_b
                  c == matched[k].confidence
              IN  /\ c[2] > 0
                  /\ matched[k].match_type = "EXACT_TXID" => c[1] = c[2]
                  /\ matched[k].match_type = "FUZZY_TIME_AMOUNT" =>
                        /\ DeviationAtMostTenthPercent(a, b)
                        /\ c[1] * Magnitude(a) =
                              (Magnitude(a) - 100 * AmountGap(a, b)) * c[2]
                        /\ 10 * c[1] >= 9 * c[2]
                        /\ c[1] <= c[2]
        /\ \A i \in 1..Len(source_a), j \in missing_in_a :
              (/\ ConflictsOf(i) # {}
               /\ SecondsApart(source_a[i], source_b[j]) <= 1800) =>
                  ~DeviationAtMostTenthPercent(source_a[i], source_b[j])

\* C6 witness: a fuzzy Match at a deviation of exactly 0.1% (confidence 0.9)
\* next to a conflict whose B record in the window deviates by 0.2%.
C6_Witness ==
    /\ ReconcileDone
    /\ \E k \in 1..Len(matched) :
          /\ matched[k].match_type = "FUZZY_TIME_AMOUNT"
          /\ 1000 * AmountGap(matched[k].source_a, matched[k].source_b)
                = Magnitude(matched[k].source_a)
          /\ 10 * matched[k].confidence[1] = 9 * matched[k].confidence[2]
    /\ \E i \in 1..Len(source_a), j \in missing_in_a :
          /\ ConflictsOf(i) # {}
          /\ source_a[i].amount # 0
          /\ SecondsApart(source_a[i], source_b[j]) <= 1800
          /\ 1000 * AmountGap(source_a[i], source_b[j]) = 2 * Magnitude(source_a[i])

\* C7: with A empty reconcile returns no matches, no conflicts and all of B
\* as missingFromLedger; with B empty and A not, no matches, nothing missing
\* and all of A as conflicts.
C7_EmptyInputs ==
    ReconcileDone =>
        /\ source_a = <<>> =>
              /\ matched = <<>>
              /\ conflicts = <<>>
              /\ missing_in_a = 1..Len(source_b)
        /\ (source_b = <<>> /\ source_a # <<>>) =>
              /\ matched = <<>>
              /\ missing_in_a = {}
              /\ Len(conflicts) = Len(source_a)
              /\ \A i \in 1..Len(source_a) : conflicts[i].source_a = source_a[i]

(***************************************************************************)
(* Properties of detect_patterns.  The rules' preconditions are stated     *)
(* over the cluster itself.                                                *)
(***************************************************************************)
Classified == pc = "done"

\* The positions of the outgoing and of the incoming records of the cluster.
OutgoingAt == {i \in 1..Len(tx_group) : tx_group[i].tx_type \in {"Withdrawal", "Send"}}
IncomingAt == {i \in 1..Len(tx_group) : tx_group[i].tx_type \in {"Deposit", "Receive"}}

\* The n-th position of S in cluster order.
NthOf(S, n) == CHOOSE i \in S : Cardinality({j \in S : j <= i}) = n

Dust(x) == -1000 <= x /\ x <= 1000

AllIncomingDust == \A i \in IncomingAt : Dust(tx_group[i].amount)

Size(rec) == IF rec.amount >= 0 THEN rec.amount ELSE -rec.amount

PreBulkMint ==
    /\ Cardinality(OutgoingAt) = 1
    /\ Cardinality(IncomingAt) > 1
    /\ AllIncomingDust

PreMintBuy ==
    /\ OutgoingAt # {}
    /\ Cardinality(IncomingAt) = 1
    /\ AllIncomingDust

PreSelfTransfer ==
    /\ Cardinality(OutgoingAt) = 1
    /\ Cardinality(IncomingAt) = 1
    /\ LET gap == Size(tx_group[NthOf(OutgoingAt, 1)])
                     - tx_group[NthOf(IncomingAt, 1)].amount
       IN  -10000 < gap /\ gap < 10000

PreGasFee ==
    /\ OutgoingAt # {}
    /\ IncomingAt = {}
    /\ Size(tx_group[NthOf(OutgoingAt, 1)]) < 50000

PreSale ==
    /\ IncomingAt # {}
    /\ OutgoingAt = {}
    /\ ~Dust(tx_group[NthOf(IncomingAt, 1)].amount)

FirstRuleThatHolds ==
    IF PreBulkMint THEN "BULK_MINT"
    ELSE IF PreMintBuy THEN "MINT_BUY"
    ELSE IF PreSelfTransfer THEN "SELF_TRANSFER"
    ELSE IF PreGasFee THEN "GAS_FEE"
    ELSE IF PreSale THEN "SALE"
    ELSE "None"

\* C8: detect_patterns returns the suggestion of the first rule, in the order
\* BULK_MINT, MINT_BUY, SELF_TRANSFER, GAS_FEE, SALE, whose precondition
\* holds, and nothing when none holds.
C8_FirstRuleWins ==
    Classified => pattern.pattern = FirstRuleThatHolds

\* C8 witness: a cluster of one outgoing and one dust incoming record whose
\* amounts differ by less than 0.0001, labeled MINT_BUY.
C8_Witness ==
    /\ Classified
    /\ PreMintBuy
    /\ PreSelfTransfer
    /\ pattern.pattern = "MINT_BUY"

\* C9: one outgoing and n > 1 incoming records, all dust, give BULK_MINT,
\* HIGH, 0.95, ESTABLISHES_COST_BASIS, with n IGNORE corrections, one per
\* incoming record in cluster order, then one CHANGE_TO_TRADE on the
\* outgoing record with sent amount |amount| and received quantity n.
C9_BulkMint ==
    (Classified /\ PreBulkMint) =>
        LET n == Cardinality(IncomingAt)
            out == NthOf(OutgoingAt, 1)
        IN  /\ pattern.pattern = "BULK_MINT"
            /\ pattern.severity = "HIGH"
            /\ 100 * pattern.confidence[1] = 95 * pattern.confidence[2]
            /\ pattern.tax_impact = "ESTABLISHES_COST_BASIS"
            /\ Len(pattern.corrections) = n + 1
            /\ \A k \in 1..n :
                  /\ pattern.corrections[k].action = "IGNORE"
                  /\ pattern.corrections[k].pos = NthOf(IncomingAt, k)
                  /\ pattern.corrections[k].tx = tx_group[NthOf(IncomingAt, k)]
            /\ pattern.corrections[n + 1].action = "CHANGE_TO_TRADE"
            /\ pattern.corrections[n + 1].pos = out
            /\ pattern.corrections[n + 1].tx = tx_group[out]
            /\ pattern.corrections[n + 1].sent_amount = Size(tx_group[out])
            /\ pattern.corrections[n + 1].received_quantity = n

\* C9 witness: the scenario of one outgoing record of 0.01 BTC followed by
\* three dust incoming records.
C9_Witness ==
    /\ Classified
    /\ PreBulkMint
    /\ Cardinality(IncomingAt) = 3
    /\ tx_group[1].amount = -1000000
    /\ pattern.pattern = "BULK_MINT"

\* C10: at least one outgoing record and exactly one incoming record, which
\* is dust, give MINT_BUY, HIGH, 0.9, ESTABLISHES_COST_BASIS, with exactly
\* two corrections: IGNORE on the incoming record, then CHANGE_TO_TRADE on
\* the first outgoing record with sent amount |amount| and quantity 1.
C10_MintBuy ==
    (Classified /\ PreMintBuy) =>
        LET in == NthOf(IncomingAt, 1)
            out == NthOf(OutgoingAt, 1)
        IN  /\ pattern.pattern = "MINT_BUY"
            /\ pattern.severity = "HIGH"
            /\ 10 * pattern.confidence[1] = 9 * pattern.confidence[2]
            /\ pattern.tax_impact = "ESTABLISHES_COST_BASIS"
            /\ Len(pattern.corrections) = 2
            /\ pattern.corrections[1].action = "IGNORE"
            /\ pattern.corrections[1].pos = in
            /\ pattern.corrections[1].tx = tx_group[in]
            /\ pattern.corrections[2].action = "CHANGE_TO_TRADE"
            /\ pattern.corrections[2].pos = out
            /\ pattern.corrections[2].tx = tx_group[out]
            /\ pattern.corrections[2].sent_amount = Size(tx_group[out])
            /\ pattern.corrections[2].received_quantity = 1

\* C10 witness: a MINT_BUY cluster with three outgoing records of which the
\* first, not the largest, carries the trade.
C10_Witness ==
    /\ Classified
    /\ PreMintBuy
    /\ Cardinality(OutgoingAt) = 3
    /\ tx_group[NthOf(OutgoingAt, 1)].amount = -546
    /\ tx_group[NthOf(OutgoingAt, 2)].amount = -1000000
    /\ pattern.pattern = "MINT_BUY"


(***************************************************************************)
(* Properties of the single rules at their thresholds.                     *)
(***************************************************************************)
\* The distance between the size of the outgoing and the incoming amount.
TransferGap ==
    LET d == Size(tx_group[NthOf(OutgoingAt, 1)])
                 - tx_group[NthOf(IncomingAt, 1)].amount
    IN  IF d < 0 THEN -d ELSE d

OneOutOneInNotDust ==
    /\ Cardinality(OutgoingAt) = 1
    /\ Cardinality(IncomingAt) = 1
    /\ ~Dust(tx_group[NthOf(IncomingAt, 1)].amount)

\* C11: one outgoing and one incoming record, the incoming one not dust:
\* when the amounts' sizes differ by strictly less than 0.0001 the cluster
\* is SELF_TRANSFER, MEDIUM, 0.85, NON_TAXABLE, with the single correction
\* MERGE_AS_TRANSFER over both records; when they differ by 0.0001 or more
\* it is not SELF_TRANSFER.
C11_SelfTransfer ==
    (Classified /\ OneOutOneInNotDust) =>
        IF TransferGap < 10000
        THEN /\ pattern.pattern = "SELF_TRANSFER"
             /\ pattern.severity = "MEDIUM"
             /\ 100 * pattern.confidence[1] = 85 * pattern.confidence[2]
             /\ pattern.tax_impact = "NON_TAXABLE"
             /\ Len(pattern.corrections) = 1
             /\ pattern.corrections[1].action = "MERGE_AS_TRANSFER"
             /\ pattern.corrections[1].pos
                   = <<NthOf(OutgoingAt, 1), NthOf(IncomingAt, 1)>>
             /\ pattern.corrections[1].txs
                   = <<tx_group[NthOf(OutgoingAt, 1)],
                       tx_group[NthOf(IncomingAt, 1)]>>
        ELSE pattern.pattern # "SELF_TRANSFER"

\* C11 witness: -20000 out and 29999 in, 9999 apart, merged as a transfer
\* although the incoming amount is the larger one.
C11_Witness ==
    /\ Classified
    /\ OneOutOneInNotDust
    /\ tx_group[NthOf(OutgoingAt, 1)].amount = -20000
    /\ tx_group[NthOf(IncomingAt, 1)].amount = 29999
    /\ pattern.pattern = "SELF_TRANSFER"

\* C11 witness of the other side: amounts exactly 0.0001 apart, no
\* SELF_TRANSFER.
C11_WitnessAtTolerance ==
    /\ Classified
    /\ OneOutOneInNotDust
    /\ TransferGap = 10000
    /\ pattern.pattern # "SELF_TRANSFER"


OnlyOutgoing == OutgoingAt # {} /\ IncomingAt = {}

\* C12: a cluster with outgoing and no incoming records is GAS_FEE, LOW,
\* 0.8, TAX_DEDUCTIBLE, with the single correction CHANGE_TO_FEE on the
\* first outgoing record, exactly when that record's size is strictly
\* below 0.0005; otherwise the cluster yields no suggestion.
C12_GasFee ==
    (Classified /\ OnlyOutgoing) =>
        LET out == NthOf(OutgoingAt, 1)
        IN  IF Size(tx_group[out]) < 50000
            THEN /\ pattern.pattern = "GAS_FEE"
                 /\ pattern.severity = "LOW"
                 /\ 10 * pattern.confidence[1] = 8 * pattern.confidence[2]
                 /\ pattern.tax_impact = "TAX_DEDUCTIBLE"
                 /\ Len(pattern.corrections) = 1
                 /\ pattern.corrections[1].action = "CHANGE_TO_FEE"
                 /\ pattern.corrections[1].pos = out
                 /\ pattern.corrections[1].tx = tx_group[out]
            ELSE pattern = [pattern |-> "None"]

\* C12 witness: the first outgoing record is 0.0005 and a later one is
\* smaller; no suggestion.
C12_Witness ==
    /\ Classified
    /\ OnlyOutgoing
    /\ Cardinality(OutgoingAt) = 2
    /\ tx_group[NthOf(OutgoingAt, 1)].amount = -50000
    /\ tx_group[NthOf(OutgoingAt, 2)].amount = -49999
    /\ pattern = [pattern |-> "None"]

\* C12 witness of the other side: a first outgoing record of 0.00049999 is
\* turned into a fee.
C12_WitnessFee ==
    /\ Classified
    /\ OnlyOutgoing
    /\ tx_group[NthOf(OutgoingAt, 1)].amount = -49999
    /\ pattern.pattern = "GAS_FEE"

OnlyIncoming == IncomingAt # {} /\ OutgoingAt = {}

\* C13: a cluster with incoming and no outgoing records is SALE, HIGH, 0.7,
\* TAXABLE_INCOME, with the single correction CHANGE_TO_TRADE on the first
\* incoming record, receiving BTC at that record's amount, exactly when the
\* first incoming record is not dust; otherwise it yields no suggestion.
C13_Sale ==
    (Classified /\ OnlyIncoming) =>
        LET in == NthOf(IncomingAt, 1)
        IN  IF ~Dust(tx_group[in].amount)
            THEN /\ pattern.pattern = "SALE"
                 /\ pattern.severity = "HIGH"
                 /\ 10 * pattern.confidence[1] = 7 * pattern.confidence[2]
                 /\ pattern.tax_impact = "TAXABLE_INCOME"
                 /\ Len(pattern.corrections) = 1
                 /\ pattern.corrections[1].action = "CHANGE_TO_TRADE"
                 /\ pattern.corrections[1].pos = in
                 /\ pattern.corrections[1].tx = tx_group[in]
                 /\ pattern.corrections[1].received_asset = "BTC"
                 /\ pattern.corrections[1].received_amount = tx_group[in].amount
            ELSE pattern = [pattern |-> "None"]

\* C13 witness: a first incoming record of 0.0000101 followed by a larger
\* one; the sale is booked at 0.0000101.
C13_Witness ==
    /\ Classified
    /\ OnlyIncoming
    /\ Cardinality(IncomingAt) = 2
    /\ tx_group[NthOf(IncomingAt, 1)].amount = 1010
    /\ tx_group[NthOf(IncomingAt, 2)].amount = 30000
    /\ pattern.pattern = "SALE"

\* C13 witness of the other side: the first incoming record is dust and a
\* later one is not; no suggestion.
C13_WitnessDustFirst ==
    /\ Classified
    /\ OnlyIncoming
    /\ Cardinality(IncomingAt) = 2
    /\ tx_group[NthOf(IncomingAt, 1)].amount = 1000
    /\ tx_group[NthOf(IncomingAt, 2)].amount = 30000
    /\ pattern = [pattern |-> "None"]


C14_WitnessAbove ==
    /\ pc = "done"
    /\ arg_amount = 1010
    /\ ~dust


(***************************************************************************)
(* Properties of get_ordiscan_link.                                        *)
(***************************************************************************)
IsHexChar(c) ==
    c \in {"0", "1", "2", "3", "4", "5", "6", "7", "8", "9"}
         \cup {"a", "b", "c", "d", "e", "f"} \cup {"A", "B", "C", "D", "E", "F"}

HasPrefix(s, p) == Len(s) >= Len(p) /\ \A i \in 1..Len(p) : s[i] = p[i]

\* An identifier of the shapes ingestion synthesizes.
Synthetic(s) ==
    \/ HasPrefix(s, <<"X", "V", "E", "R", "S", "E", "_">>)
    \/ HasPrefix(s, <<"C", "E", "X", "_">>)
    \/ \E i \in 1..Len(s) : i <= 20 /\ s[i] = "_"

Linkable(s) ==
    /\ Len(s) = 64
    /\ \A i \in 1..Len(s) : IsHexChar(s[i])
    /\ ~Synthetic(s)

\* C15: a link is produced for an identifier if and only if it is exactly
\* 64 characters long, all hexadecimal digits, and of no synthesized shape;
\* the link is the URL stem followed by the identifier; every other
\* identifier, the empty one included, and every synthesized one gets none.
C15_LinkIffHash ==
    pc = "done" =>
        /\ Linkable(arg_tx_id) <=> ordiscan_link # <<>>
        /\ ordiscan_link # <<>> =>
              ordiscan_link = <<"https://ordiscan.com/tx/">> \o arg_tx_id
        /\ Synthetic(arg_tx_id) => ordiscan_link = <<>>

\* C15 witness: a 64-character lower-case hex identifier got its link.
C15_Witness ==
    /\ pc = "done"
    /\ Len(arg_tx_id) = 64
    /\ \A i \in 1..64 : arg_tx_id[i] = "a"
    /\ ordiscan_link # <<>>

\* C15 witnesses of the other side: a 64-character identifier with one
\* non-hex character, a 63-character hex identifier, and a 64-character
\* identifier with the XVERSE_ prefix got no link.
C15_WitnessNonHex ==
    /\ pc = "done"
    /\ Len(arg_tx_id) = 64
    /\ arg_tx_id[64] = "z"
    /\ \A i \in 1..63 : arg_tx_id[i] = "a"
    /\ ordiscan_link = <<>>

C15_WitnessShort ==
    /\ pc = "done"
    /\ Len(arg_tx_id) = 63
    /\ \A i \in 1..63 : arg_tx_id[i] = "F"
    /\ ordiscan_link = <<>>

C15_WitnessSynthetic ==
    /\ pc = "done"
    /\ Len(arg_tx_id) = 64
    /\ HasPrefix(arg_tx_id, <<"X", "V", "E", "R", "S", "E", "_">>)
    /\ ordiscan_link = <<>>


(***************************************************************************)
(* Properties of reconcile_with_corrections.  They are stated over the     *)
(* two collections and the clusters built from them.                       *)
(***************************************************************************)
CorrectionsDone == pc = "done" /\ summary # [pattern |-> "None"]

StartOfMinute(t) == 60 * (t \div 60)

\* The clusters holding the record at position i of collection src.
ClustersHolding(src, i) ==
    {g \in 1..Len(all_groups) :
        \E m \in 1..Len(all_groups[g].members) :
           /\ all_groups[g].members[m].src = src
           /\ all_groups[g].members[m].idx = i}

\* The ledger minutes within 2 minutes of the observed record at j.
LedgerMinutesNear(j) ==
    {StartOfMinute(source_a[i].timestamp) : i \in 1..Len(source_a)}
       \cap {m \in -120..600 :
                /\ m - source_b[j].timestamp <= 120
                /\ source_b[j].timestamp - m <= 120}

Unattached(j) == LedgerMinutesNear(j) = {}

\* C16: no record of A or B belongs to more than one cluster; an observed
\* record within 2 minutes of two ledger minutes is in one cluster only.
C16_ClustersDisjoint ==
    CorrectionsDone =>
        /\ \A i \in 1..Len(source_a) : Cardinality(ClustersHolding("A", i)) <= 1
        /\ \A j \in 1..Len(source_b) : Cardinality(ClustersHolding("B", j)) <= 1

\* C16, the reachable state that refutes it: the observed record at 120 is
\* held by the cluster of minute 0 and by the cluster of minute 180.
C16_InTwoClusters ==
    /\ CorrectionsDone
    /\ Len(source_a) = 2 /\ Len(source_b) = 1
    /\ source_a[1].timestamp = 0 /\ source_a[2].timestamp = 180
    /\ source_b[1].timestamp = 120
    /\ Cardinality(ClustersHolding("B", 1)) = 2

\* C17: every observed record with an empty identifier that is attached to
\* no ledger-derived cluster is held by a cluster (the one of its
\* 5-minute bucket) and so reaches the classifier.
C17_NoIdentifierClustered ==
    CorrectionsDone =>
        \A j \in 1..Len(source_b) :
           (source_b[j].tx_id = "" /\ Unattached(j)) =>
               ClustersHolding("B", j) # {}

\* C17, the reachable state that refutes it: a lone observed record
\* without identifier, and no cluster at all.
C17_Dropped ==
    /\ CorrectionsDone
    /\ source_a = <<>> /\ Len(source_b) = 1
    /\ source_b[1].tx_id = ""
    /\ all_groups = <<>>
    /\ correction_suggestions = <<>>

\* The unattached observed records carrying the identifier id.
UnattachedWith(id) ==
    {j \in 1..Len(source_b) : source_b[j].tx_id = id /\ Unattached(j)}

\* C18: every observed record with a non-empty identifier that is attached
\* to no ledger-derived cluster is held by exactly one cluster, the one
\* keyed by its identifier, whose members are all the unattached observed
\* records of that identifier; also when another observed record of the
\* same identifier is attached to a ledger-derived cluster.
C18_IdentifierClusters ==
    CorrectionsDone =>
        \A j \in 1..Len(source_b) :
           (source_b[j].tx_id # "" /\ Unattached(j)) =>
               /\ Cardinality(ClustersHolding("B", j)) = 1
               /\ \A g \in ClustersHolding("B", j) :
                     /\ all_groups[g].key = <<"txid", source_b[j].tx_id>>
                     /\ {all_groups[g].members[m] :
                            m \in 1..Len(all_groups[g].members)}
                          = {[src |-> "B", idx |-> k] :
                                k \in UnattachedWith(source_b[j].tx_id)}

\* C18, the reachable state that refutes it: of two observed records "ab"
\* the one at 120 is attached to the ledger minute 0, and the one at 301,
\* attached to nothing, is in no cluster.
C18_DroppedBesideAttached ==
    /\ CorrectionsDone
    /\ Len(source_a) = 1 /\ Len(source_b) = 2
    /\ source_a[1].timestamp = 0
    /\ source_b[1].tx_id = "ab" /\ source_b[1].timestamp = 120
    /\ source_b[2].tx_id = "ab" /\ source_b[2].timestamp = 301
    /\ ClustersHolding("B", 1) # {}
    /\ ClustersHolding("B", 2) = {}


(***************************************************************************)
(* Properties of detect_anomalies.                                         *)
(***************************************************************************)
AnomaliesDone == pc = "done"

\* The findings of a type raised for row i.
FindingsFor(type, i) ==
    {k \in 1..Len(anomalies) : anomalies[k].type = type /\ anomalies[k].row = i}

\* fee > 0.1 * |amount|, both nonzero.
FeeAboveTenth(rec) ==
    /\ rec.fee # 0
    /\ rec.amount # 0
    /\ 10 * rec.fee > (IF rec.amount < 0 THEN -rec.amount ELSE rec.amount)

\* C19: a FEE_ANOMALY finding of severity HIGH is raised for a record
\* exactly when its fee and amount are nonzero and the fee exceeds a tenth
\* of the amount's absolute value, whatever the amount's sign.
C19_FeeAnomaly ==
    AnomaliesDone =>
        \A i \in 1..Len(transactions) :
           /\ FeeAboveTenth(transactions[i]) <=> FindingsFor("FEE_ANOMALY", i) # {}
           /\ \A k \in FindingsFor("FEE_ANOMALY", i) :
                 /\ anomalies[k].severity = "HIGH"
                 /\ anomalies[k].tx_id = transactions[i].tx_id

\* C19, the reachable state that refutes it: a single outgoing record of
\* amount -0.1 and fee 0.02, and no finding.
C19_OutgoingNotFlagged ==
    /\ AnomaliesDone
    /\ Len(transactions) = 1
    /\ transactions[1].amount = -10000000
    /\ transactions[1].fee = 2000000
    /\ anomalies = <<>>

\* The records carrying identifier id, and the duplicate findings naming it.
RecordsWith(id) == {i \in 1..Len(transactions) : transactions[i].tx_id = id}

DuplicateFindings(id) ==
    {k \in 1..Len(anomalies) :
        anomalies[k].type = "DUPLICATE_TXID" /\ anomalies[k].tx_id = id}

\* C20: exactly one duplicate-identifier finding, of severity CRITICAL, for
\* each distinct non-empty identifier carried by two or more records,
\* however many; none for an identifier carried once, none for the empty
\* identifier.
C20_OneFindingPerDuplicate ==
    AnomaliesDone =>
        /\ \A id \in {transactions[i].tx_id : i \in 1..Len(transactions)} \cup {""} :
              Cardinality(DuplicateFindings(id))
                 = IF id # "" /\ Cardinality(RecordsWith(id)) >= 2 THEN 1 ELSE 0
        /\ \A k \in 1..Len(anomalies) :
              anomalies[k].type = "DUPLICATE_TXID" =>
                 /\ anomalies[k].severity = "CRITICAL"
                 /\ RecordsWith(anomalies[k].tx_id) # {}

\* C20 witness: three records share "ab", one carries "cd": one finding.
C20_Witness ==
    /\ AnomaliesDone
    /\ Cardinality(RecordsWith("ab")) = 3
    /\ Cardinality(RecordsWith("cd")) = 1
    /\ Cardinality(DuplicateFindings("ab")) = 1
    /\ DuplicateFindings("cd") = {}

\* C20 witness: two identifiers, each on two records: two findings.
C20_WitnessTwoIdentifiers ==
    /\ AnomaliesDone
    /\ Cardinality(RecordsWith("ab")) = 2
    /\ Cardinality(RecordsWith("cd")) = 2
    /\ Cardinality(DuplicateFindings("ab")) = 1
    /\ Cardinality(DuplicateFindings("cd")) = 1

\* C20 witness: two records without identifier: no finding.
C20_WitnessEmptyIdentifier ==
    /\ AnomaliesDone
    /\ Cardinality(RecordsWith("")) = 2
    /\ \A k \in 1..Len(anomalies) : anomalies[k].type # "DUPLICATE_TXID"


\* Seconds from 2025-01-01T00:00:00Z that fall inside the year 2025.
InReportingYear(t) == 0 <= t /\ t < 31536000

\* C21: exactly one OUT_OF_RANGE finding, of severity MEDIUM and carrying
\* the record's identifier, for each record whose calendar year is not the
\* reporting year 2025, and none for a record inside it; two offending
\* records of one identifier give two findings.
C21_OutOfRange ==
    AnomaliesDone =>
        \A i \in 1..Len(transactions) :
           /\ Cardinality(FindingsFor("OUT_OF_RANGE", i))
                 = IF InReportingYear(transactions[i].timestamp) THEN 0 ELSE 1
           /\ \A k \in FindingsFor("OUT_OF_RANGE", i) :
                 /\ anomalies[k].severity = "MEDIUM"
                 /\ anomalies[k].tx_id = transactions[i].tx_id

\* C21 witness: one record in the last second of 2024 and one in the first
\* second of 2026, both "cd", beside one in the last second of 2025: two
\* findings naming "cd".
C21_Witness ==
    /\ AnomaliesDone
    /\ Len(transactions) = 3
    /\ transactions[1].timestamp = -1
    /\ transactions[2].timestamp = 31536000 - 1
    /\ transactions[3].timestamp = 31536000
    /\ FindingsFor("OUT_OF_RANGE", 1) # {}
    /\ FindingsFor("OUT_OF_RANGE", 2) = {}
    /\ FindingsFor("OUT_OF_RANGE", 3) # {}
    /\ Cardinality({k \in 1..Len(anomalies) :
           anomalies[k].type = "OUT_OF_RANGE" /\ anomalies[k].tx_id = "cd"}) = 2


\* The place of a kind of finding in the returned list.
KindRank(type) ==
    IF type = "FEE_ANOMALY" THEN 1
    ELSE IF type = "DUPLICATE_TXID" THEN 2
    ELSE 3

\* The first record carrying identifier id.
FirstRecordWith(id) ==
    CHOOSE i \in RecordsWith(id) : \A j \in RecordsWith(id) : i <= j

\* C22: the findings are ordered by kind, FEE_ANOMALY then duplicate
\* identifier then OUT_OF_RANGE; within FEE_ANOMALY and OUT_OF_RANGE by
\* input position, within the duplicates by the first occurrence of the
\* identifier; and the findings of one kind do not keep those of another
\* kind from being reported.
C22_FindingsOrder ==
    AnomaliesDone =>
        /\ \A k \in 1..Len(anomalies) : \A l \in 1..Len(anomalies) :
              k < l =>
                 /\ KindRank(anomalies[k].type) <= KindRank(anomalies[l].type)
                 /\ (anomalies[k].type = anomalies[l].type
                       /\ anomalies[k].type # "DUPLICATE_TXID")
                      => anomalies[k].row < anomalies[l].row
                 /\ (anomalies[k].type = "DUPLICATE_TXID"
                       /\ anomalies[l].type = "DUPLICATE_TXID")
                      => FirstRecordWith(anomalies[k].tx_id)
                            < FirstRecordWith(anomalies[l].tx_id)
        /\ \A i \in 1..Len(transactions) :
              ~InReportingYear(transactions[i].timestamp)
                 => FindingsFor("OUT_OF_RANGE", i) # {}
        /\ \A i \in 1..Len(transactions) :
              (transactions[i].tx_id # ""
                 /\ Cardinality(RecordsWith(transactions[i].tx_id)) >= 2)
                 => DuplicateFindings(transactions[i].tx_id) # {}

\* C22 witness: an out-of-range "cd" record listed first, then two "ab"
\* records of which the second has a high fee, then "cd" again: the
\* findings come as FEE_ANOMALY, duplicate "cd", duplicate "ab",
\* OUT_OF_RANGE.
C22_Witness ==
    /\ AnomaliesDone
    /\ Len(transactions) = 4
    /\ transactions[1].tx_id = "cd" /\ transactions[1].timestamp = -1
    /\ transactions[2].tx_id = "ab"
    /\ transactions[3].tx_id = "ab"
    /\ transactions[4].tx_id = "cd" /\ transactions[4].timestamp = 0
    /\ Len(anomalies) = 4
    /\ anomalies[1].type = "FEE_ANOMALY" /\ anomalies[1].row = 3
    /\ anomalies[2].type = "DUPLICATE_TXID" /\ anomalies[2].tx_id = "cd"
    /\ anomalies[3].type = "DUPLICATE_TXID" /\ anomalies[3].tx_id = "ab"
    /\ anomalies[4].type = "OUT_OF_RANGE" /\ anomalies[4].row = 1


\* The sum of the counts f[x] over the keys x in S.
RECURSIVE SumOver(_, _)
SumOver(f, S) ==
    IF S = {} THEN 0
    ELSE LET x == CHOOSE y \in S : TRUE
         IN  f[x] + SumOver(f, S \ {x})

SuggestionsWhere(field, value) ==
    {k \in 1..Len(correction_suggestions) :
        correction_suggestions[k][field] = value}

\* The records a cluster stands for.
RecordsOfCluster(g) ==
    [m \in 1..Len(all_groups[g].members) |->
        IF all_groups[g].members[m].src = "A"
        THEN source_a[all_groups[g].members[m].idx]
        ELSE source_b[all_groups[g].members[m].idx]]

\* C23: the summary tallies the returned suggestions: total_issues is their
\* number, the counts by severity over HIGH, MEDIUM and LOW and the counts
\* by pattern label each sum to it, each count is the number of suggestions
\* of that severity or label, and there is at most one suggestion per
\* cluster.
C23_SummaryTallies ==
    CorrectionsDone =>
        /\ summary.total_issues = Len(correction_suggestions)
        /\ DOMAIN summary.by_severity = {"HIGH", "MEDIUM", "LOW"}
        /\ SumOver(summary.by_severity, {"HIGH", "MEDIUM", "LOW"})
              = summary.total_issues
        /\ SumOver(summary.by_pattern, DOMAIN summary.by_pattern)
              = summary.total_issues
        /\ \A s \in {"HIGH", "MEDIUM", "LOW"} :
              summary.by_severity[s] = Cardinality(SuggestionsWhere("severity", s))
        /\ \A p \in DOMAIN summary.by_pattern :
              summary.by_pattern[p] = Cardinality(SuggestionsWhere("pattern", p))
        /\ \A k \in 1..Len(correction_suggestions) :
              correction_suggestions[k].pattern \in DOMAIN summary.by_pattern
        /\ Len(correction_suggestions) <= Len(all_groups)
        /\ \A k \in 1..Len(correction_suggestions) :
              \E g \in 1..Len(all_groups) :
                 correction_suggestions[k].affected_transactions
                    = RecordsOfCluster(g)

\* C23 witness: three clusters, one SALE, one SELF_TRANSFER and one
\* GAS_FEE, tallied as 1 HIGH, 1 MEDIUM, 1 LOW.
C23_Witness ==
    /\ CorrectionsDone
    /\ Len(all_groups) = 3
    /\ summary.total_issues = 3
    /\ summary.by_severity["HIGH"] = 1
    /\ summary.by_severity["MEDIUM"] = 1
    /\ summary.by_severity["LOW"] = 1
    /\ DOMAIN summary.by_pattern = {"SALE", "SELF_TRANSFER", "GAS_FEE"}

\* C23 witness: two observed-only clusters, both SALE, counted twice under
\* one label.
C23_WitnessSameLabel ==
    /\ CorrectionsDone
    /\ Len(all_groups) = 2
    /\ summary.total_issues = 2
    /\ DOMAIN summary.by_pattern = {"SALE"}
    /\ summary.by_pattern["SALE"] = 2
    /\ summary.by_severity["HIGH"] = 2

\* C23 witness: a cluster of two ledger records and one observed record
\* yields no suggestion, so the total stays below the number of clusters.
C23_WitnessSilentCluster ==
    /\ CorrectionsDone
    /\ Len(all_groups) = 1
    /\ Len(all_groups[1].members) = 3
    /\ summary.total_issues = 0
    /\ DOMAIN summary.by_pattern = {}


ConsumedBefore(i) ==
    {matched[k].idx_b : k \in {h \in 1..Len(matched) : matched[h].idx_a < i}}

\* The rows of B that row i of A can take in the fuzzy tier.
Eligible(i) ==
    {j \in 1..Len(source_b) :
        /\ SecondsApart(source_a[i], source_b[j]) <= 1800
        /\ DeviationAtMostTenthPercent(source_a[i], source_b[j])
        /\ j \notin ConsumedBefore(i)}

TakenInExactTier(i) ==
    \E k \in MatchesOf(i) : matched[k].match_type = "EXACT_TXID"

\* C25: a fuzzy Match takes, among the unconsumed B records inside the
\* window and the tolerance, one of smallest deviation, the first in B's
\* order among equals; a B record consumed by an earlier A record is never
\* taken; and an A record that has such candidates and no exact partner is
\* matched.
C25_BestCandidate ==
    ReconcileDone =>
        /\ \A k \in 1..Len(matched) :
              matched[k].match_type = "FUZZY_TIME_AMOUNT" =>
                 LET i == matched[k].idx_a
                     j == matched[k].idx_b
                 IN  /\ j \in Eligible(i)
                     /\ \A h \in Eligible(i) :
                           \/ AmountGap(source_a[i], source_b[j])
                                 < AmountGap(source_a[i], source_b[h])
                           \/ /\ AmountGap(source_a[i], source_b[j])
                                    = AmountGap(source_a[i], source_b[h])
                              /\ j <= h
        /\ \A i \in 1..Len(source_a) :
              (Eligible(i) # {} /\ ~TakenInExactTier(i)) =>
                 \E k \in MatchesOf(i) : matched[k].match_type = "FUZZY_TIME_AMOUNT"

\* C25 witness: B lists the 0.05% record before the 0.01% record; the A
\* record takes the second.
C25_Witness ==
    /\ ReconcileDone
    /\ Len(source_a) = 1 /\ Len(source_b) = 2
    /\ source_b[1].amount = -9995 /\ source_b[1].timestamp = 0
    /\ source_b[2].amount = -9999 /\ source_b[2].timestamp = 0
    /\ Len(matched) = 1
    /\ matched[1].match_type = "FUZZY_TIME_AMOUNT"
    /\ matched[1].idx_b = 2

\* C25 witness: two candidates of equal score, -10001 listed before
\* -9999; the first A record takes the first, the second A record, which
\* finds it consumed, takes the second.
C25_WitnessTieThenConsumed ==
    /\ ReconcileDone
    /\ Len(source_a) = 2 /\ Len(source_b) = 2
    /\ source_b[1].amount = -10001 /\ source_b[1].timestamp = 0
    /\ source_b[2].amount = -9999 /\ source_b[2].timestamp = 0
    /\ Len(matched) = 2
    /\ matched[1].match_type = "FUZZY_TIME_AMOUNT" /\ matched[1].idx_b = 1
    /\ matched[2].match_type = "FUZZY_TIME_AMOUNT" /\ matched[2].idx_b = 2


(***************************************************************************)
(* Properties of the conflicts of reconcile.                               *)
(***************************************************************************)
HasExactPartner(i) ==
    /\ source_a[i].tx_id # ""
    /\ \E j \in 1..Len(source_b) : source_b[j].tx_id = source_a[i].tx_id

\* C26: an A record that no tier matched yields exactly one conflict entry,
\* holding the record, no observed partner and the reason
\* MISSING_IN_BLOCKCHAIN; an A record of amount zero without an exact
\* partner is never matched, whatever B holds, and so is such a conflict.
C26_ConflictEntry ==
    ReconcileDone =>
        \A i \in 1..Len(source_a) :
           /\ MatchesOf(i) = {} =>
                 /\ Cardinality(ConflictsOf(i)) = 1
                 /\ \A k \in ConflictsOf(i) :
                       /\ conflicts[k].source_a = source_a[i]
                       /\ conflicts[k].source_b = [pattern |-> "None"]
                       /\ conflicts[k].issue = "MISSING_IN_BLOCKCHAIN"
           /\ (source_a[i].amount = 0 /\ ~HasExactPartner(i)) => MatchesOf(i) = {}

\* C26, the reachable state that refutes it: a zero-amount A record and an
\* empty B; the record is neither matched nor a conflict.
C26_ZeroAmountLost ==
    /\ ReconcileDone
    /\ Len(source_a) = 1 /\ source_b = <<>>
    /\ source_a[1].amount = 0
    /\ MatchesOf(1) = {}
    /\ ConflictsOf(1) = {}

\* C26 on a non-empty B, where it holds: a zero-amount A record beside an
\* observed record inside the window has become a conflict.
C26_ZeroAmountConflict ==
    /\ ReconcileDone
    /\ Len(source_a) = 1 /\ Len(source_b) = 1
    /\ source_a[1].amount = 0 /\ source_a[1].tx_id = ""
    /\ source_b[1].timestamp = 1800
    /\ Cardinality(ConflictsOf(1)) = 1
    /\ conflicts[1].issue = "MISSING_IN_BLOCKCHAIN"


\* How often cluster g lists the record at position i of collection src.
TimesListed(g, src, i) ==
    Cardinality({m \in 1..Len(all_groups[g].members) :
        /\ all_groups[g].members[m].src = src
        /\ all_groups[g].members[m].idx = i})

LedgerClusters == {g \in 1..Len(all_groups) : all_groups[g].key[1] = "time"}

\* C27: every ledger record is in exactly one cluster, once, the cluster of
\* its timestamp truncated to the minute; two ledger records share a
\* cluster exactly when they fall in the same minute; and an observed
\* record is in a ledger cluster exactly when it lies within 2 minutes,
\* inclusive, of the start of that cluster's minute.
C27_MinuteBuckets ==
    CorrectionsDone =>
        /\ \A i \in 1..Len(source_a) :
              /\ Cardinality(ClustersHolding("A", i)) = 1
              /\ \A g \in ClustersHolding("A", i) :
                    /\ all_groups[g].key
                          = <<"time", StartOfMinute(source_a[i].timestamp)>>
                    /\ TimesListed(g, "A", i) = 1
        /\ \A i \in 1..Len(source_a), h \in 1..Len(source_a) :
              (ClustersHolding("A", i) = ClustersHolding("A", h))
                 <=> (StartOfMinute(source_a[i].timestamp)
                         = StartOfMinute(source_a[h].timestamp))
        /\ \A g \in LedgerClusters : \A j \in 1..Len(source_b) :
              (g \in ClustersHolding("B", j))
                 <=> /\ source_b[j].timestamp - all_groups[g].key[2] <= 120
                     /\ all_groups[g].key[2] - source_b[j].timestamp <= 120

\* C27 witness: ledger records at 0 and 59 share the cluster of minute 0;
\* the observed record at 120 is in it, the one at 121, 62 seconds after
\* the second ledger record, is not.
C27_Witness ==
    /\ CorrectionsDone
    /\ Len(source_a) = 2 /\ Len(source_b) = 2
    /\ source_a[1].timestamp = 0 /\ source_a[2].timestamp = 59
    /\ source_b[1].timestamp = 120 /\ source_b[2].timestamp = 121
    /\ source_b[2].tx_id = "cd"
    /\ ClustersHolding("A", 1) = {1} /\ ClustersHolding("A", 2) = {1}
    /\ ClustersHolding("B", 1) = {1}
    /\ ClustersHolding("B", 2) = {2}
    /\ all_groups[2].key = <<"txid", "cd">>

\* The tags of the first incoming record of the classified cluster.
FirstIncomingTags == tx_group[NthOf(IncomingAt, 1)].metadata

TagsUsable == FirstIncomingTags # MetadataNone /\ DOMAIN FirstIncomingTags # {}

TagSet(key, empty) ==
    /\ TagsUsable
    /\ key \in DOMAIN FirstIncomingTags
    /\ FirstIncomingTags[key] # empty

FirstChars(id) == [i \in 1..(IF Len(id) < 16 THEN Len(id) ELSE 16) |-> id[i]]

\* C28: the sent-asset label of a SALE is taken from the first incoming
\* record's tags: the first 16 characters of a non-empty inscription id
\* between "Ordinal " and "..."; else a non-empty rune name; else the generic
\* label of an asset type of ORDINAL or RUNE; else the placeholder.  Tags
\* that are None or an empty dict give the placeholder, and a label is always
\* produced.
C28_SaleAssetLabel ==
    (Classified /\ OnlyIncoming /\ ~Dust(tx_group[NthOf(IncomingAt, 1)].amount)) =>
        /\ pattern.pattern = "SALE"
        /\ Len(pattern.corrections) = 1
        /\ pattern.corrections[1].sent_asset =
              IF TagSet("inscription_id", <<>>)
              THEN <<"Ordinal ">> \o FirstChars(FirstIncomingTags.inscription_id)
                   \o <<"...">>
              ELSE IF TagSet("rune_name", "")
              THEN <<FirstIncomingTags.rune_name>>
              ELSE IF TagSet("asset_type", "") /\ FirstIncomingTags.asset_type = "ORDINAL"
              THEN <<"Ordinal (check transaction details)">>
              ELSE IF TagSet("asset_type", "") /\ FirstIncomingTags.asset_type = "RUNE"
              THEN <<"Rune (check transaction details)">>
              ELSE <<"ORDINAL/RUNE (specify which asset was sold)">>

\* C28 witness: the first incoming record carries a 17-character inscription
\* id, a rune name and an asset type; the label shows the first 16
\* characters of the inscription id.
C28_Witness ==
    /\ Classified
    /\ Len(tx_group) = 2
    /\ TagSet("inscription_id", <<>>)
    /\ Len(FirstIncomingTags.inscription_id) = 17
    /\ TagSet("rune_name", "")
    /\ TagSet("asset_type", "")
    /\ pattern.pattern = "SALE"
    /\ Len(pattern.corrections[1].sent_asset) = 18
    /\ pattern.corrections[1].sent_asset[17] = "a"

\* C28 witness: the first incoming record has tags of None and the second
\* an inscription id; the label is the placeholder.
C28_WitnessNoTags ==
    /\ Classified
    /\ Len(tx_group) = 2
    /\ tx_group[1].metadata = MetadataNone
    /\ "inscription_id" \in DOMAIN tx_group[2].metadata
    /\ pattern.pattern = "SALE"
    /\ pattern.corrections[1].sent_asset =
          <<"ORDINAL/RUNE (specify which asset was sold)">>

\* C28 witness: an empty inscription id and an asset type of BTC fall
\* through to the rune name.
C28_WitnessRuneName ==
    /\ Classified
    /\ Len(tx_group) = 1
    /\ "inscription_id" \in DOMAIN FirstIncomingTags
    /\ FirstIncomingTags.inscription_id = <<>>
    /\ TagSet("rune_name", "")
    /\ pattern.pattern = "SALE"
    /\ pattern.corrections[1].sent_asset = <<"DOG">>


BothClassified == pc = "again"

C29_WitnessSelfTransfer ==
    /\ BothClassified
    /\ Len(tx_group) = 2
    /\ my_wallets = <<"bc1qown">>
    /\ other_wallets = <<"bc1qown", "bc1qcold">>
    /\ pattern.pattern = "SELF_TRANSFER"
    /\ other_pattern.pattern = "SELF_TRANSFER"


\* The label of a result of detect_patterns; None has the label "None".
LabelOf(result) == result.pattern

\* C30: detect_patterns gives the same label, or no suggestion both times,
\* to a cluster and to the same records listed in any other order.
C30_OrderIgnored ==
    BothClassified => LabelOf(other_pattern) = LabelOf(pattern)

\* C30: outgoing records of 0.0005 and 0.00049999 get no suggestion in that
\* order and GAS_FEE in the other.
C30_GasFeeByOrder ==
    /\ BothClassified
    /\ Len(tx_group) = 2
    /\ tx_group[1].amount = -50000
    /\ tx_group[2].amount = -49999
    /\ other_group = <<tx_group[2], tx_group[1]>>
    /\ pattern = None
    /\ other_pattern.pattern = "GAS_FEE"

\* C30: incoming records of 0.00001 and 0.0003 get no suggestion in that
\* order and SALE in the other.
C30_SaleByOrder ==
    /\ BothClassified
    /\ Len(tx_group) = 2
    /\ tx_group[1].amount = 1000
    /\ tx_group[2].amount = 30000
    /\ other_group = <<tx_group[2], tx_group[1]>>
    /\ pattern = None
    /\ other_pattern.pattern = "SALE"

====
